---- MODULE Spec2Model ----
(***************************************************************************)
(* PopMonitor: the monitor loop of src/bot.js (second snapshot, lines      *)
(* 166-412) driving the two passes of src/scraper/scraper.js:              *)
(* checkProducts (full-catalog pagination + reconciliation) and            *)
(* checkHotProducts (priority prober).                                     *)
(*                                                                         *)
(* The catalog site, the Mongo collection and the Discord notifier are the *)
(* environment.  The listing response of a navigation is reconciled before *)
(* page.goto settles (the response handler is not interleaved here).       *)
(*                                                                         *)
(* The first version of the scraper, src/scraper.js, whose pagination      *)
(* state lives in module variables, is modelled in a section of its own.   *)
(***************************************************************************)
EXTENDS Integers, Sequences, FiniteSets, TLC

\* ---------------------------------------------------------------- bounds
MaxItems == 3
MaxPages == 3
MaxPrice == 2
MaxStock == 1
MaxPasses == 5
MaxPassesData == 1
MaxPassesLegacy == 2
MaxPassesClock == 1
MaxPassesCalm == 6
MaxPassesAsync == 1
MaxEvents == 1

\* ------------------------------------------------------ program constants
MAX_CONSECUTIVE_FAILURES == 5
MAX_PAGE_FAILS == 3
\* FAIL_THRESHOLD = 0.5 as the fraction FAIL_THRESHOLD_NUM / FAIL_THRESHOLD_DEN
FAIL_THRESHOLD_NUM == 1
FAIL_THRESHOLD_DEN == 2

ChangeTypeAlert ==
    [RESTOCK |-> 0, NEW_ITEM |-> 1, Other |-> 2, SOLD_OUT |-> 3, PRICE_CHANGE |-> 4]

\* ./config (not part of the sources): hot window and intervals, in ms
HOT_DAYS == {5, 6}
HOT_HOURS_START == 9
HOT_HOURS_END == 12
CHECK_INTERVAL_PEAK == 30000
CHECK_INTERVAL_OFF_PEAK == 60000
CHECK_INTERVAL_SNOOZE == 300000

Items == 1..MaxItems
Pages == 1..MaxPages

VARIABLES
    \* bot.js
    pc,                   \* position of monitor()
    runMode,              \* mode returned by getInterval for the current pass
    consecutiveFailures,
    err,                  \* class of the exception the pass threw, or "none"
    \* scraper.js, module level
    sharedBrowser,        \* "null" | "open" | "closed"
    \* the Product collection and the catalog site
    store,
    site,
    sitePages,
    \* scraper state of the pass in progress
    allProductsMap,
    changedProductsMap,
    alertProducts,
    cache,
    currentPage,
    totalPages,
    pageFails,
    firstPageRetries,
    priorityProducts,
    hotIdx,
    failedCount,
    \* observation of the run (history)
    attempts,             \* navigations of currentPage made so far in this pass
    fetched,              \* pages whose page.goto resolved in this pass
    skipped,              \* pages given up after MAX_PAGE_FAILS failures
    obsLog,               \* pages whose listing response was reconciled, in order
    probed,               \* product ids navigated to by the prober, in order
    observed,             \* ids whose listing entry or detail payload was classified
    store0,               \* the collection as it was when this pass started
    bulkWrites,           \* bulk upserts issued by this pass
    sent,                 \* notifier calls of this loop iteration, in order
    trafficAlerts,        \* high-traffic alerts attempted in this iteration
    operatorAlerts,       \* operator alerts attempted since start
    failRun,              \* passes in a row that ended in a non-traffic failure
    failsSinceOk,         \* non-traffic failures since the last pass that returned
    resetFrom,            \* the counter value the last returning pass overwrote
    startFailures,        \* the counter when the current pass started
    passesLeft,           \* passes the run may still start
    eventsLeft,           \* catalog changes the run may still see
    \* the wall clock and what monitor() read off it (clock-driven runs)
    now,                  \* [day, hour] of new Date() at the top of the loop
    interval,             \* CHECK_INTERVAL of the current iteration
    \* responses whose handler is still awaiting response.json() (runs that
    \* interleave the response handler with the driver)
    inflight,
    \* the notifier
    rejected              \* notifier calls since start whose getChannel or send rejected

ctlVars == <<pc, runMode, consecutiveFailures, err, sharedBrowser>>
clockVars == <<now, interval>>
asyncVars == <<inflight>>
notifyVars == <<rejected>>
dataVars == <<store, site, sitePages>>
pageVars == <<currentPage, totalPages, pageFails, firstPageRetries>>
probeVars == <<priorityProducts, hotIdx, failedCount>>
changeVars == <<changedProductsMap, alertProducts>>
passVars == <<allProductsMap, changeVars, cache, pageVars, probeVars>>
pageHist == <<attempts, fetched, skipped, obsLog>>
passHist == <<pageHist, probed, observed, store0, bulkWrites>>
alertHist == <<sent, trafficAlerts, operatorAlerts>>
runHist == <<failRun, failsSinceOk, resetFrom, startFailures>>
budget == <<passesLeft, eventsLeft>>
histVars == <<passHist, alertHist, runHist, budget>>
vars == <<ctlVars, dataVars, passVars, histVars, clockVars, asyncVars, notifyVars>>

\* ------------------------------------------------------------------ URLs
DetailUrl(id) == <<"products", id>>
SearchUrl(page) == <<"search", page>>

\* A Product document; product_id is the key of the map that holds it.
Doc(price, inStock, url, prio) ==
    [price |-> price, in_stock |-> inStock, url |-> url, is_priority |-> prio]

EmptyMap == [i \in {} |-> 0]
Known(map, i) == i \in DOMAIN map

\* ------------------------------------------------------------- bot.js
\* a getInterval whose hot window includes its end hour
getIntervalInclusiveEnd(day, hour) ==
    LET isHotTime == day \in HOT_DAYS /\ hour >= HOT_HOURS_START /\ hour <= HOT_HOURS_END
        timeToStart == HOT_HOURS_START - hour
        timeToEnd == HOT_HOURS_END - hour
        Abs(x) == IF x < 0 THEN -x ELSE x
    IN  IF isHotTime THEN [interval |-> CHECK_INTERVAL_PEAK, mode |-> "throttle"]
        ELSE IF day \in HOT_DAYS /\ Abs(timeToStart) <= CHECK_INTERVAL_OFF_PEAK
             THEN [interval |-> timeToStart, mode |-> "prep"]
        ELSE IF day \in HOT_DAYS /\ (Abs(timeToStart) <= 2 \/ Abs(timeToEnd) <= 2)
             THEN [interval |-> CHECK_INTERVAL_OFF_PEAK, mode |-> "standby"]
        ELSE [interval |-> CHECK_INTERVAL_SNOOZE, mode |-> "snooze"]

\* getInterval(now), now given as getDay() and getHours()
getInterval(day, hour) ==
    LET isHotTime == day \in HOT_DAYS /\ hour >= HOT_HOURS_START /\ hour < HOT_HOURS_END
        timeToStart == HOT_HOURS_START - hour
        timeToEnd == HOT_HOURS_END - hour
        Abs(x) == IF x < 0 THEN -x ELSE x
    IN  IF isHotTime THEN [interval |-> CHECK_INTERVAL_PEAK, mode |-> "throttle"]
        ELSE IF day \in HOT_DAYS /\ Abs(timeToStart) <= CHECK_INTERVAL_OFF_PEAK
             THEN [interval |-> timeToStart, mode |-> "prep"]
        ELSE IF day \in HOT_DAYS /\ (Abs(timeToStart) <= 2 \/ Abs(timeToEnd) <= 2)
             THEN [interval |-> CHECK_INTERVAL_OFF_PEAK, mode |-> "standby"]
        ELSE [interval |-> CHECK_INTERVAL_SNOOZE, mode |-> "snooze"]

\* a return that leaves the counter as it was
FailuresAfterReturnKept(failures) == failures

\* monitor(): the counter after a pass that returned
FailuresAfterReturn(failures) == 0

\* a fatal test that lets the counter reach the maximum
IsFatalStrict(failures) == failures > MAX_CONSECUTIVE_FAILURES

\* the fatal test of monitor()
IsFatal(failures) == failures >= MAX_CONSECUTIVE_FAILURES

\* a catch block that counts every exception alike
FailuresAfterAnyError(failures, e) == failures + 1

\* the catch block of monitor(): the counter after an exception of class e
FailuresAfter(failures, e) ==
    IF e = "PageError" THEN failures + 1
    ELSE IF e = "HighTrafficError" THEN failures
    ELSE failures + 1

\* --------------------------------------------------- scraper/scraper.js
\* an updateDb that writes whatever the changeset holds
NeedsWriteAlways(changed) == TRUE

\* Object.keys(state.changedProductsMap).length > 0
NeedsWrite(changed) == DOMAIN changed # {}

\* a bulk write whose $set leaves out the price of a document that exists
BulkWriteNoPrice(db, changed) ==
    [i \in (DOMAIN db) \cup (DOMAIN changed) |->
        IF i \in DOMAIN changed
        THEN Doc(IF i \in DOMAIN db THEN db[i].price ELSE changed[i].price,
                 changed[i].in_stock, changed[i].url,
                 IF i \in DOMAIN db THEN db[i].is_priority ELSE FALSE)
        ELSE db[i]]

\* a bulk write that replaces the matched document: is_priority falls back
\* to its schema default
BulkWriteReplace(db, changed) ==
    [i \in (DOMAIN db) \cup (DOMAIN changed) |->
        IF i \in DOMAIN changed
        THEN Doc(changed[i].price, changed[i].in_stock, changed[i].url, FALSE)
        ELSE db[i]]

\* Product.bulkWrite(buildBulkOps(productsMap)): one updateOne per entry,
\* filter product_id, $set name/price/url/in_stock, upsert.
BulkWrite(db, changed) ==
    [i \in (DOMAIN db) \cup (DOMAIN changed) |->
        IF i \in DOMAIN changed
        THEN Doc(changed[i].price, changed[i].in_stock, changed[i].url,
                 IF i \in DOMAIN db THEN db[i].is_priority ELSE FALSE)
        ELSE db[i]]

RECURSIVE BulkOpsFrom(_, _)
\* Object.values(productsMap).map(...) from key i on (integer keys enumerate
\* in ascending order): one updateOne per value, its filter the product_id
\* of the value
BulkOpsFrom(productsMap, i) ==
    IF i > MaxItems THEN <<>>
    ELSE IF i \in DOMAIN productsMap
         THEN <<[filter |-> i,
                 set |-> [price |-> productsMap[i].price, url |-> productsMap[i].url,
                          in_stock |-> productsMap[i].in_stock],
                 upsert |-> TRUE]>> \o BulkOpsFrom(productsMap, i + 1)
         ELSE BulkOpsFrom(productsMap, i + 1)

\* buildBulkOps(productsMap)
buildBulkOps(productsMap) == BulkOpsFrom(productsMap, 1)

\* one updateOne with upsert on the collection db: $set on the document the
\* filter matches, or the insert of a document with the filter's product_id
\* and the $set fields (is_priority at its schema default)
UpdateOne(db, op) ==
    LET i == op.filter
    IN  IF i \in DOMAIN db
        THEN [db EXCEPT ![i] = Doc(op.set.price, op.set.in_stock, op.set.url,
                                   db[i].is_priority)]
        ELSE (i :> Doc(op.set.price, op.set.in_stock, op.set.url, FALSE)) @@ db

RECURSIVE ApplyBulkOps(_, _, _)
\* Product.bulkWrite(ops) on the collection db, op n and the ones after it
ApplyBulkOps(db, ops, n) ==
    IF n > Len(ops) THEN db
    ELSE ApplyBulkOps(UpdateOne(db, ops[n]), ops, n + 1)

\* the threshold test of checkHotProducts
OverThreshold(failed, total) ==
    failed * FAIL_THRESHOLD_DEN > total * FAIL_THRESHOLD_NUM

\* items the listing response of page p carries, in listing order
Listing(p) == {i \in Items : site[i].listed /\ site[i].page = p}

\* an updateField that records the change but leaves the product in the map
\* as it was
updateFieldNoMap(st, i, field, newValue) ==
    IF st.map[i][field] # newValue
    THEN LET product == [st.map[i] EXCEPT ![field] = newValue]
         IN  [map |-> st.map,
              changed |-> (i :> product) @@ st.changed,
              alerts |-> IF field = "price"
                         THEN Append(st.alerts, <<i, ChangeTypeAlert.PRICE_CHANGE>>)
                         ELSE st.alerts]
    ELSE st

\* an updateField that never alerts
updateFieldNoAlert(st, i, field, newValue) ==
    IF st.map[i][field] # newValue
    THEN LET product == [st.map[i] EXCEPT ![field] = newValue]
         IN  [map |-> [st.map EXCEPT ![i] = product],
              changed |-> (i :> product) @@ st.changed,
              alerts |-> st.alerts]
    ELSE st

\* an updateField that alerts for a change of url as it does for price
updateFieldUrlAlert(st, i, field, newValue) ==
    IF st.map[i][field] # newValue
    THEN LET product == [st.map[i] EXCEPT ![field] = newValue]
         IN  [map |-> [st.map EXCEPT ![i] = product],
              changed |-> (i :> product) @@ st.changed,
              alerts |-> IF field \in {"price", "url"}
                         THEN Append(st.alerts, <<i, ChangeTypeAlert.PRICE_CHANGE>>)
                         ELSE st.alerts]
    ELSE st

\* an updateField that leaves an entry the changeset already holds as it is
updateFieldFirstWins(st, i, field, newValue) ==
    IF st.map[i][field] # newValue
    THEN LET product == [st.map[i] EXCEPT ![field] = newValue]
         IN  [map |-> [st.map EXCEPT ![i] = product],
              changed |-> st.changed @@ (i :> product),
              alerts |-> IF field = "price"
                         THEN Append(st.alerts, <<i, ChangeTypeAlert.PRICE_CHANGE>>)
                         ELSE st.alerts]
    ELSE st

\* updateField(field, newValue) of the response handler, on the scraper state
\* st = [map, changed, alerts] and the known product i
updateField(st, i, field, newValue) ==
    IF st.map[i][field] # newValue
    THEN LET product == [st.map[i] EXCEPT ![field] = newValue]
         IN  [map |-> [st.map EXCEPT ![i] = product],
              changed |-> (i :> product) @@ st.changed,
              alerts |-> IF field = "price"
                         THEN Append(st.alerts, <<i, ChangeTypeAlert.PRICE_CHANGE>>)
                         ELSE st.alerts]
    ELSE st

\* the body of the for loop of the response handler for one listed item
ReconcileItem(st, i, page) ==
    LET rawPrice == site[i].price
        inStock == site[i].stock > 0
        isPopNow == site[i].secret
        productUrl == IF isPopNow THEN SearchUrl(page) ELSE DetailUrl(i)
    IN  IF ~Known(st.map, i)
        THEN IF rawPrice = 0 \/ ~inStock
             THEN st
             ELSE [map |-> st.map,
                   changed |-> (i :> Doc(rawPrice, inStock, productUrl, FALSE)) @@ st.changed,
                   alerts |-> Append(st.alerts, <<i, ChangeTypeAlert.NEW_ITEM>>)]
        ELSE LET s1 == IF inStock /\ ~st.map[i].in_stock
                       THEN updateField([st EXCEPT !.alerts =
                                            Append(@, <<i, ChangeTypeAlert.RESTOCK>>)],
                                        i, "in_stock", inStock)
                       ELSE st
                 s2 == updateField(s1, i, "price", rawPrice)
             IN  updateField(s2, i, "url", productUrl)

RECURSIVE ReconcileFrom(_, _, _)
\* the for loop of the response handler over items i..MaxItems of page's
\* listing; skus[0].price of an entry without a sku throws outside the inner
\* try, and the catch of the handler is outside the loop
ReconcileFrom(st, i, page) ==
    IF i > MaxItems THEN st
    ELSE IF i \in Listing(page) /\ ~site[i].sku THEN st
    ELSE ReconcileFrom(IF i \in Listing(page) THEN ReconcileItem(st, i, page) ELSE st,
                       i + 1, page)

\* the response handler of checkProducts for the listing response of page
ReconcilePage(st, page) == ReconcileFrom(st, 1, page)

RECURSIVE ReconcileLateFrom(_, _, _, _)
\* the for loop of the response handler over the listing of page listed, run
\* while the driver's currentPage is urlPage (the handler reads currentPage
\* when it builds productUrl)
ReconcileLateFrom(st, i, listed, urlPage) ==
    IF i > MaxItems THEN st
    ELSE IF i \in Listing(listed) /\ ~site[i].sku THEN st
    ELSE ReconcileLateFrom(IF i \in Listing(listed) THEN ReconcileItem(st, i, urlPage)
                           ELSE st,
                           i + 1, listed, urlPage)

\* ------------------------------------------------------------ initial state
NoPass ==
    /\ allProductsMap = EmptyMap
    /\ changedProductsMap = EmptyMap
    /\ alertProducts = <<>>
    /\ cache = FALSE
    /\ currentPage = 1
    /\ totalPages = 1
    /\ pageFails = 0
    /\ firstPageRetries = 0
    /\ priorityProducts = <<>>
    /\ hotIdx = 1
    /\ failedCount = 0
    /\ attempts = 0
    /\ fetched = {}
    /\ skipped = {}
    /\ obsLog = <<>>
    /\ probed = <<>>
    /\ observed = {}
    /\ store0 = EmptyMap
    /\ bulkWrites = 0
    /\ sent = <<>>
    /\ trafficAlerts = 0

\* runs that do not follow the clock
NoClock ==
    /\ now = [day |-> 0, hour |-> 0]
    /\ interval = 0

InitControl ==
    /\ pc = "start"
    /\ runMode = "none"
    /\ consecutiveFailures = 0
    /\ err = "none"
    /\ sharedBrowser = "null"
    /\ operatorAlerts = 0
    /\ failRun = 0
    /\ failsSinceOk = 0
    /\ resetFrom = -1
    /\ startFailures = 0
    /\ NoPass
    /\ inflight = {}
    /\ rejected = 0

PageOf(i, n) == IF i <= n THEN i ELSE n

\* The catalog lists items 1..n, item i on page PageOf(i, pages).
SiteOf(n, pages, price, stock, secret) ==
    [i \in Items |->
        [listed |-> i <= n, price |-> price[i], stock |-> stock[i],
         secret |-> i \in secret, page |-> PageOf(i, pages), sku |-> TRUE]]

\* The collection holds items 1..k; 1..j of them are flagged priority.
StoreOf(k, j, price, inStock, url) ==
    [i \in 1..k |-> Doc(price[i], inStock[i], url[i], i <= j)]

\* ------------------------------------------------------------------ actions
\* a loop top that is also reached while the alerts are being sent
IdleEarly == pc \in {"start", "sleep", "retrySleep", "dispatch"}

\* monitor() is at the top of its loop: just started, or back from
\* sleep(nextInterval) or sleep(RETRY_DELAY)
Idle == pc \in {"start", "sleep", "retrySleep"}

Days == 0..6
Hours == 0..23

\* the modes getInterval(new Date()) returns over the week
ClockModes == {getInterval(day, hour).mode : day \in Days, hour \in Hours}

\* scraperInit(): a fresh scraper state for the pass
scraperInit ==
    /\ changedProductsMap' = EmptyMap
    /\ alertProducts' = <<>>
    /\ cache' = FALSE
    /\ pageFails' = 0
    /\ firstPageRetries' = 0
    /\ attempts' = 0
    /\ fetched' = {}
    /\ skipped' = {}
    /\ obsLog' = <<>>
    /\ probed' = <<>>
    /\ observed' = {}
    /\ store0' = store
    /\ bulkWrites' = 0
    /\ sent' = <<>>
    /\ trafficAlerts' = 0
    /\ startFailures' = consecutiveFailures

\* getBrowser(): launch when the handle is null, else hand out the handle
getBrowser(handle) == IF handle = "null" THEN "open" ELSE handle

\* a pass that goes on with the products the scraper state holds
LoadKnownStateKept(cacheValid, held, db) == held

\* if (!state.cache) state.allProductsMap = <Product.find() by product_id>:
\* the known products of the pass
LoadKnownState(cacheValid, held, db) == IF ~cacheValid THEN db ELSE held

RECURSIVE PriorityFrom(_, _)
\* Product.find({ is_priority: true }), in id order, from id i on
PriorityFrom(db, i) ==
    IF i > MaxItems THEN <<>>
    ELSE IF i \in DOMAIN db /\ db[i].is_priority
         THEN <<[id |-> i, in_stock |-> db[i].in_stock, price |-> db[i].price,
                 url |-> db[i].url]>> \o PriorityFrom(db, i + 1)
         ELSE PriorityFrom(db, i + 1)

\* monitor(): loop top with runMode = mode, not throttle; checkProducts() up
\* to its pagination loop, Product.find() resolving (findOk) or rejecting
BeginFullWith(mode, findOk) ==
    /\ Idle
    /\ passesLeft > 0
    /\ passesLeft' = passesLeft - 1
    /\ mode # "throttle"
    /\ runMode' = mode
    /\ scraperInit
    /\ sharedBrowser' = getBrowser(sharedBrowser)
    /\ currentPage' = 1
    /\ totalPages' = 1
    /\ priorityProducts' = <<>>
    /\ hotIdx' = 1
    /\ failedCount' = 0
    /\ IF sharedBrowser' = "closed" \/ ~findOk
       THEN /\ pc' = "caught"
            /\ err' = "Other"
            /\ allProductsMap' = EmptyMap
       ELSE /\ pc' = "full"
            /\ err' = "none"
            /\ allProductsMap' = LoadKnownState(cache', EmptyMap, store)
    /\ UNCHANGED <<consecutiveFailures, dataVars, operatorAlerts, failRun, failsSinceOk,
                   resetFrom, eventsLeft>>

\* monitor(): loop top with runMode = mode, not throttle; checkProducts() up
\* to its pagination loop
BeginFull(mode) == \E findOk \in BOOLEAN : BeginFullWith(mode, findOk)

\* monitor(): loop top with runMode = mode, throttle; checkHotProducts() up to
\* its probe loop, Product.find({ is_priority: true }) resolving (findOk) or
\* rejecting
BeginHotWith(mode, findOk) ==
    /\ Idle
    /\ passesLeft > 0
    /\ passesLeft' = passesLeft - 1
    /\ mode = "throttle"
    /\ runMode' = mode
    /\ scraperInit
    /\ sharedBrowser' = getBrowser(sharedBrowser)
    /\ currentPage' = 1
    /\ totalPages' = 1
    /\ allProductsMap' = EmptyMap
    /\ hotIdx' = 1
    /\ failedCount' = 0
    /\ IF sharedBrowser' = "closed" \/ ~findOk
       THEN /\ pc' = "caught"
            /\ err' = "Other"
            /\ priorityProducts' = <<>>
       ELSE /\ pc' = "hot"
            /\ err' = "none"
            /\ priorityProducts' = PriorityFrom(store, 1)
    /\ UNCHANGED <<consecutiveFailures, dataVars, operatorAlerts, failRun, failsSinceOk,
                   resetFrom, eventsLeft>>

\* monitor(): loop top with runMode = mode, throttle; checkHotProducts() up to
\* its probe loop
BeginHot(mode) == \E findOk \in BOOLEAN : BeginHotWith(mode, findOk)

\* monitor(): loop top at some time of the week, getInterval says a
\* full-catalog pass
StartFull ==
    /\ \E mode \in ClockModes : BeginFull(mode)
    /\ UNCHANGED <<clockVars, asyncVars, notifyVars>>

\* monitor(): loop top at some time of the week, getInterval says throttle
StartHot ==
    /\ \E mode \in ClockModes : BeginHot(mode)
    /\ UNCHANGED <<clockVars, asyncVars, notifyVars>>

\* monitor(): loop top at the time now: getInterval(new Date()) gives runMode
\* and CHECK_INTERVAL, and a mode other than throttle calls checkProducts()
ClockStartFull ==
    LET r == getInterval(now.day, now.hour)
    IN  /\ BeginFull(r.mode)
        /\ interval' = r.interval
        /\ UNCHANGED <<now, asyncVars, notifyVars>>

\* monitor(): loop top at the time now, throttle calls checkHotProducts()
ClockStartHot ==
    LET r == getInterval(now.day, now.hour)
    IN  /\ BeginHot(r.mode)
        /\ interval' = r.interval
        /\ UNCHANGED <<now, asyncVars, notifyVars>>

\* a catch block that gives page 1 one attempt more before PageError
AfterNavFailureLate(page, fails, retries) ==
    IF page = 1
    THEN [page |-> page, pageFails |-> fails + 1, firstPageRetries |-> retries + 1,
          thrown |-> retries + 1 > MAX_PAGE_FAILS, skip |-> FALSE]
    ELSE IF fails + 1 >= MAX_PAGE_FAILS
         THEN [page |-> (page + 1) + 1, pageFails |-> 0, firstPageRetries |-> retries,
               thrown |-> FALSE, skip |-> TRUE]
         ELSE [page |-> page, pageFails |-> fails + 1, firstPageRetries |-> retries,
               thrown |-> FALSE, skip |-> FALSE]

\* the catch block of the pagination loop and the increment after it: page,
\* counters and verdict after a failed navigation of page
AfterNavFailure(page, fails, retries) ==
    IF page = 1
    THEN [page |-> page, pageFails |-> fails + 1, firstPageRetries |-> retries + 1,
          thrown |-> retries + 1 >= MAX_PAGE_FAILS, skip |-> FALSE]
    ELSE IF fails + 1 >= MAX_PAGE_FAILS
         \* currentPage++ in the catch block, then currentPage++ after it
         THEN [page |-> (page + 1) + 1, pageFails |-> 0, firstPageRetries |-> retries,
               thrown |-> FALSE, skip |-> TRUE]
         ELSE [page |-> page, pageFails |-> fails + 1, firstPageRetries |-> retries,
               thrown |-> FALSE, skip |-> FALSE]

\* one iteration of the pagination loop of checkProducts: page.goto of
\* currentPage resolving (ok) or rejecting, the response handler on the
\* listing response if one is captured (resp), then the loop's bookkeeping
NavigatePageWith(ok, resp) ==
    /\ pc = "full"
    /\ currentPage <= totalPages
    /\ LET st0 == [map |-> allProductsMap, changed |-> changedProductsMap,
                      alerts |-> alertProducts]
              st1 == IF resp THEN ReconcilePage(st0, currentPage) ELSE st0
              f == AfterNavFailure(currentPage, pageFails, firstPageRetries)
          IN  /\ allProductsMap' = st1.map
              /\ changedProductsMap' = st1.changed
              /\ alertProducts' = st1.alerts
              /\ totalPages' = IF resp THEN sitePages ELSE totalPages
              /\ obsLog' = IF resp THEN Append(obsLog, currentPage) ELSE obsLog
              /\ observed' = IF resp THEN observed \cup Listing(currentPage) ELSE observed
              /\ IF ok
                 THEN /\ pageFails' = 0
                      /\ currentPage' = currentPage + 1
                      /\ fetched' = fetched \cup {currentPage}
                      /\ attempts' = 0
                      /\ UNCHANGED <<firstPageRetries, skipped, pc, err>>
                 ELSE /\ pageFails' = f.pageFails
                      /\ firstPageRetries' = f.firstPageRetries
                      /\ currentPage' = f.page
                      /\ attempts' = IF f.page = currentPage THEN attempts + 1 ELSE 0
                      /\ skipped' = IF f.skip THEN skipped \cup {currentPage} ELSE skipped
                      /\ pc' = IF f.thrown THEN "caught" ELSE pc
                      /\ err' = IF f.thrown THEN "PageError" ELSE err
                      /\ UNCHANGED fetched
    /\ UNCHANGED <<runMode, consecutiveFailures, sharedBrowser, dataVars, cache,
                   probeVars, probed, store0, bulkWrites, alertHist, runHist, budget>>
    /\ UNCHANGED <<clockVars, notifyVars>>

\* one iteration of the pagination loop of checkProducts
NavigatePage ==
    /\ \E ok \in BOOLEAN, resp \in BOOLEAN : NavigatePageWith(ok, resp)
    /\ UNCHANGED asyncVars

\* an updateDb that swallows the rejection of Product.bulkWrite
UpdateDbAndReturnLost(writeOk) ==
    /\ store' = IF NeedsWrite(changedProductsMap) /\ writeOk
                THEN BulkWrite(store, changedProductsMap) ELSE store
    /\ cache' = ~NeedsWrite(changedProductsMap)
    /\ bulkWrites' = IF NeedsWrite(changedProductsMap) /\ writeOk
                     THEN bulkWrites + 1 ELSE bulkWrites
    /\ consecutiveFailures' = FailuresAfterReturn(consecutiveFailures)
    /\ resetFrom' = consecutiveFailures
    /\ failRun' = 0
    /\ failsSinceOk' = 0
    /\ pc' = "dispatch"
    /\ err' = "none"

\* updateDb(state), Product.bulkWrite resolving (writeOk) or rejecting, then
\* the return into monitor(): consecutiveFailures = 0
UpdateDbAndReturnWith(writeOk) ==
       IF NeedsWrite(changedProductsMap) /\ ~writeOk
       THEN /\ pc' = "caught"
            /\ err' = "Other"
            /\ UNCHANGED <<store, cache, bulkWrites, consecutiveFailures, failRun,
                           failsSinceOk, resetFrom>>
       ELSE /\ store' = IF NeedsWrite(changedProductsMap)
                        THEN BulkWrite(store, changedProductsMap) ELSE store
            /\ cache' = ~NeedsWrite(changedProductsMap)
            /\ bulkWrites' = IF NeedsWrite(changedProductsMap)
                             THEN bulkWrites + 1 ELSE bulkWrites
            /\ consecutiveFailures' = FailuresAfterReturn(consecutiveFailures)
            /\ resetFrom' = consecutiveFailures
            /\ failRun' = 0
            /\ failsSinceOk' = 0
            /\ pc' = "dispatch"
            /\ err' = "none"

\* updateDb(state), then the return into monitor()
UpdateDbAndReturn == \E writeOk \in BOOLEAN : UpdateDbAndReturnWith(writeOk)

\* the end of checkProducts: page.close, browser.close, sharedBrowser = null,
\* updateDb with the bulk write resolving (writeOk) or rejecting, return
FinishFullWith(writeOk) ==
    /\ pc = "full"
    /\ currentPage > totalPages
    /\ sharedBrowser' = "null"
    /\ UpdateDbAndReturnWith(writeOk)
    /\ UNCHANGED <<runMode, site, sitePages, allProductsMap, changeVars, pageVars,
                   probeVars, pageHist, probed, observed, store0, alertHist,
                   startFailures, budget>>
    /\ UNCHANGED <<clockVars, notifyVars>>

\* the end of checkProducts
FinishFull ==
    /\ \E writeOk \in BOOLEAN : FinishFullWith(writeOk)
    /\ UNCHANGED asyncVars

\* a probe loop that gives up at the first failure
ProbeVerdictStrict(outcome, failed, total) ==
    IF outcome = "data"
    THEN [failedCount |-> failed, thrown |-> OverThreshold(failed, total)]
    ELSE [failedCount |-> failed + 1, thrown |-> TRUE]

\* one iteration of the probe loop of checkHotProducts, by what the
\* navigation gave: "exception" (page.goto or the payload access threw),
\* "nodata" (no detail payload intercepted) or "data".  The failed count
\* after it and whether HighTrafficError leaves the loop.
ProbeVerdict(outcome, failed, total) ==
    IF outcome = "nodata"
    THEN [failedCount |-> failed + 1, thrown |-> FALSE]
    ELSE IF outcome = "data"
         THEN [failedCount |-> failed, thrown |-> OverThreshold(failed, total)]
         ELSE [failedCount |-> failed + 1, thrown |-> OverThreshold(failed + 1, total)]

\* the stock classification of checkHotProducts for a captured payload
ProbeChange(wasInStock, isInStock) ==
    IF wasInStock # isInStock
    THEN IF isInStock THEN <<ChangeTypeAlert.RESTOCK>> ELSE <<ChangeTypeAlert.SOLD_OUT>>
    ELSE <<>>

\* one iteration of the probe loop of checkHotProducts whose navigation gave
\* outcome, interceptedData holding the detail payload of product id payload
\* (0: the payload captured during the product's own navigation)
ProbeProductFrom(outcome, payload) ==
    /\ pc = "hot"
    /\ hotIdx <= Len(priorityProducts)
    /\ LET product == priorityProducts[hotIdx]
              data == IF payload = 0 THEN product.id ELSE payload
              isInStock == site[data].stock > 0
              change == IF outcome = "data"
                        THEN ProbeChange(product.in_stock, isInStock) ELSE <<>>
              updated == [product EXCEPT !.in_stock = isInStock]
              v == ProbeVerdict(outcome, failedCount, Len(priorityProducts))
          IN  /\ probed' = Append(probed, product.id)
              /\ observed' = IF outcome = "data" THEN observed \cup {product.id}
                             ELSE observed
              /\ IF change # <<>>
                 THEN /\ priorityProducts' = [priorityProducts EXCEPT ![hotIdx] = updated]
                      /\ alertProducts' = Append(alertProducts, <<product.id, change[1]>>)
                      /\ changedProductsMap' =
                            (product.id :> Doc(updated.price, updated.in_stock,
                                               updated.url, TRUE)) @@ changedProductsMap
                 ELSE UNCHANGED <<priorityProducts, alertProducts, changedProductsMap>>
              /\ failedCount' = v.failedCount
              /\ hotIdx' = hotIdx + 1
              /\ pc' = IF v.thrown THEN "caught" ELSE pc
              /\ err' = IF v.thrown THEN "HighTrafficError" ELSE err
    /\ UNCHANGED <<runMode, consecutiveFailures, sharedBrowser, dataVars, allProductsMap,
                   cache, pageVars, pageHist, store0, bulkWrites, alertHist, runHist,
                   budget>>
    /\ UNCHANGED <<clockVars, notifyVars>>

\* one iteration of the probe loop of checkHotProducts whose navigation gave
\* outcome, the response handler done before page.goto settles
ProbeProductWith(outcome) == ProbeProductFrom(outcome, 0)

\* what a navigation of the prober can give
ProbeOutcomes == {"exception", "nodata", "data"}

\* one iteration of the probe loop of checkHotProducts
ProbeProduct ==
    /\ \E outcome \in ProbeOutcomes : ProbeProductWith(outcome)
    /\ UNCHANGED asyncVars

\* the end of checkHotProducts: browser.close (the handle is kept), updateDb
\* with the bulk write resolving (writeOk) or rejecting, return
FinishHotWith(writeOk) ==
    /\ pc = "hot"
    /\ hotIdx > Len(priorityProducts)
    /\ sharedBrowser' = "closed"
    /\ UpdateDbAndReturnWith(writeOk)
    /\ UNCHANGED <<runMode, site, sitePages, allProductsMap, changeVars, pageVars,
                   probeVars, pageHist, probed, observed, store0, alertHist,
                   startFailures, budget>>
    /\ UNCHANGED <<clockVars, notifyVars>>

\* the end of checkHotProducts
FinishHot ==
    /\ \E writeOk \in BOOLEAN : FinishHotWith(writeOk)
    /\ UNCHANGED asyncVars

\* a loop over alertProducts that starts at its last event
DispatchAlertReversed ==
    /\ pc = "dispatch"
    /\ Len(sent) < Len(alertProducts)
    /\ sent' = Append(sent, alertProducts[Len(alertProducts) - Len(sent)])
    /\ UNCHANGED <<ctlVars, dataVars, passVars, passHist, trafficAlerts, operatorAlerts,
                   runHist, budget>>
    /\ UNCHANGED <<clockVars, asyncVars, notifyVars>>

\* the catch block of sendAlert and sendTrafficAlert: a rejection of
\* getChannel or channel.send is logged and the call returns; the operator
\* alert of monitor() has no catch block, its rejection is replaced by the
\* Error of the finally block
AfterSend(ok) == IF ok THEN rejected ELSE rejected + 1

\* monitor(): one sendAlert of the loop over alertProducts, the notifier
\* delivering (ok) or rejecting
DispatchAlertWith(ok) ==
    /\ pc = "dispatch"
    /\ Len(sent) < Len(alertProducts)
    /\ sent' = Append(sent, alertProducts[Len(sent) + 1])
    /\ rejected' = AfterSend(ok)
    /\ UNCHANGED <<ctlVars, dataVars, passVars, passHist, trafficAlerts, operatorAlerts,
                   runHist, budget>>
    /\ UNCHANGED <<clockVars, asyncVars>>

\* monitor(): one sendAlert of the loop over alertProducts
DispatchAlert == DispatchAlertWith(TRUE)

\* monitor(): the loop over alertProducts is done; sleep(nextInterval)
Sleep ==
    /\ pc = "dispatch"
    /\ Len(sent) = Len(alertProducts)
    /\ pc' = "sleep"
    /\ UNCHANGED <<runMode, consecutiveFailures, err, sharedBrowser, dataVars, passVars,
                   histVars>>
    /\ UNCHANGED <<clockVars, asyncVars, notifyVars>>

\* a fatal branch that catches the rejection of the operator alert and goes on
FatalExitIfSent(alertOk) == IF alertOk THEN "terminated" ELSE "retrySleep"

\* the fatal branch of monitor(): try { operator alert } finally { throw }
FatalExit(alertOk) == "terminated"

\* monitor(): the catch block for PageError and other errors: count, then the
\* fatal test (operator alert on TEST_CHANNEL_ID and the throw of finally) or
\* sleep(RETRY_DELAY); for HighTrafficError: sendTrafficAlert, then the
\* cooldown; the notifier call of the block delivering (ok) or rejecting
CatchWith(ok) ==
    /\ pc = "caught"
    /\ consecutiveFailures' = FailuresAfter(consecutiveFailures, err)
    /\ IF err = "HighTrafficError"
       THEN /\ trafficAlerts' = trafficAlerts + 1
            /\ rejected' = AfterSend(ok)
            /\ failRun' = 0
            /\ pc' = "cooldown"
            /\ UNCHANGED <<operatorAlerts, failsSinceOk>>
       ELSE /\ failRun' = failRun + 1
            /\ failsSinceOk' = failsSinceOk + 1
            /\ IF IsFatal(consecutiveFailures')
               THEN /\ pc' = FatalExit(ok)
                    /\ operatorAlerts' = operatorAlerts + 1
                    /\ rejected' = AfterSend(ok)
               ELSE /\ ok
                    /\ pc' = "retrySleep"
                    /\ UNCHANGED <<operatorAlerts, rejected>>
            /\ UNCHANGED trafficAlerts
    /\ UNCHANGED <<runMode, err, sharedBrowser, dataVars, passVars, passHist, sent,
                   resetFrom, startFailures, budget>>
    /\ UNCHANGED <<clockVars, asyncVars>>

\* monitor(): the catch block up to its first sleep
Catch == CatchWith(TRUE)

\* monitor(): sleep(sleepTime) after the traffic alert is over, then the same
\* fatal test and sleep(RETRY_DELAY); the operator alert delivered (ok) or
\* rejected
CooldownWith(ok) ==
    /\ pc = "cooldown"
    /\ IF IsFatal(consecutiveFailures)
       THEN /\ pc' = FatalExit(ok)
            /\ operatorAlerts' = operatorAlerts + 1
            /\ rejected' = AfterSend(ok)
       ELSE /\ ok
            /\ pc' = "retrySleep"
            /\ UNCHANGED <<operatorAlerts, rejected>>
    /\ UNCHANGED <<runMode, consecutiveFailures, err, sharedBrowser, dataVars, passVars,
                   passHist, sent, trafficAlerts, runHist, budget>>
    /\ UNCHANGED <<clockVars, asyncVars>>

\* monitor(): sleep(sleepTime) after the traffic alert is over, then the same
\* fatal test and sleep(RETRY_DELAY)
Cooldown == CooldownWith(TRUE)

\* the catalog changes while the monitor sleeps: an item goes out of stock or
\* comes back
SiteStock ==
    /\ Idle
    /\ eventsLeft > 0
    /\ \E i \in Items, n \in 0..MaxStock :
          /\ site[i].listed
          /\ (site[i].stock = 0) # (n = 0)
          /\ site' = [site EXCEPT ![i].stock = n]
    /\ eventsLeft' = eventsLeft - 1
    /\ UNCHANGED <<ctlVars, store, sitePages, passVars, passHist, alertHist, runHist,
                   passesLeft>>
    /\ UNCHANGED <<clockVars, asyncVars, notifyVars>>

Next ==
    \/ StartFull
    \/ StartHot
    \/ NavigatePage
    \/ FinishFull
    \/ ProbeProduct
    \/ FinishHot
    \/ DispatchAlert
    \/ Sleep
    \/ Catch
    \/ Cooldown
    \/ SiteStock

\* ----------------------------------------------------------- specifications
\* Controller, pagination and prober runs: every item is known and listed
\* at the stored price, 1..j of them are priority items, the stock on the
\* site and in the store is uniform.
Init ==
    /\ InitControl
    /\ NoClock
    /\ passesLeft = MaxPasses
    /\ eventsLeft = MaxEvents
    /\ sitePages = 1
    /\ \E j \in {1, MaxItems}, s \in BOOLEAN, t \in BOOLEAN :
          /\ site = SiteOf(MaxItems, sitePages, [i \in Items |-> 1],
                           [i \in Items |-> IF t THEN 1 ELSE 0], {})
          /\ store = StoreOf(MaxItems, j, [i \in Items |-> 1], [i \in Items |-> s],
                             [i \in Items |-> DetailUrl(i)])

Spec == Init /\ [][Next]_vars

\* What the store and the site hold of one item.
Absent == [known |-> FALSE, listed |-> FALSE, in_stock |-> FALSE, prio |-> FALSE,
           stock |-> 0, price |-> 1, secret |-> FALSE]

\* every relation of the stored document of a known item to its listing
KnownProfiles ==
    [known : {TRUE}, listed : {TRUE}, in_stock : BOOLEAN, prio : BOOLEAN,
     stock : 0..MaxStock, price : 1..MaxPrice, secret : BOOLEAN]

\* every listing of an item the store does not hold (price 0: a falsy price)
NewProfiles ==
    [known : {FALSE}, listed : {TRUE}, in_stock : {FALSE}, prio : {FALSE},
     stock : 0..MaxStock, price : 0..1, secret : BOOLEAN]

\* a known item in step with its listing, or a plain new listing
PlainProfiles ==
    {Absent}
    \cup [known : {TRUE}, listed : {TRUE}, in_stock : {TRUE}, prio : {FALSE},
          stock : {1}, price : {1}, secret : {FALSE}]
    \cup [known : {FALSE}, listed : {TRUE}, in_stock : {FALSE}, prio : {FALSE},
          stock : {1}, price : {1}, secret : {FALSE}]

\* store and site built from one profile per item; stored price 1, stored
\* url the detail url
DataOf(profile, pages) ==
    /\ sitePages = pages
    /\ site = [i \in Items |->
                [listed |-> profile[i].listed, price |-> profile[i].price,
                 stock |-> profile[i].stock, secret |-> profile[i].secret,
                 page |-> PageOf(i, pages), sku |-> TRUE]]
    /\ store = [i \in {x \in Items : profile[x].known} |->
                 Doc(1, profile[i].in_stock, DetailUrl(i), profile[i].prio)]

\* Data runs: item 1 in every relation to its listing, item 2 plain, the
\* others absent, over one or two listing pages; and pagination runs: every
\* item known and in step, over MaxPages pages.
InitData ==
    /\ InitControl
    /\ NoClock
    /\ passesLeft = MaxPassesData
    /\ eventsLeft = MaxEvents
    /\ \/ \E p1 \in KnownProfiles \cup NewProfiles, p2 \in PlainProfiles,
             n \in 1..(MaxPages - 1) :
             DataOf([i \in Items |-> IF i = 1 THEN p1 ELSE IF i = 2 THEN p2 ELSE Absent], n)
       \/ \E s \in BOOLEAN :
             DataOf([i \in Items |->
                      [known |-> TRUE, listed |-> TRUE, in_stock |-> s, prio |-> FALSE,
                       stock |-> IF s THEN 1 ELSE 0, price |-> 1, secret |-> FALSE]],
                    MaxPages)

\* monitor() while getInterval never says throttle and the catalog stays as
\* it is: full-catalog passes only
NextData ==
    \/ StartFull
    \/ NavigatePage
    \/ FinishFull
    \/ DispatchAlert
    \/ Sleep
    \/ Catch

SpecData == InitData /\ [][NextData]_vars

\* the catalog grows or shrinks while a full-catalog pass runs: the listing
\* responses that follow report another total
SiteResize ==
    /\ pc = "full"
    /\ eventsLeft > 0
    /\ \E n \in Pages : n # sitePages /\ sitePages' = n
    /\ eventsLeft' = eventsLeft - 1
    /\ UNCHANGED <<ctlVars, store, site, passVars, passHist, alertHist, runHist,
                   passesLeft>>
    /\ UNCHANGED <<clockVars, asyncVars, notifyVars>>

\* full-catalog passes over a catalog that changes size during a pass
NextResize ==
    \/ StartFull
    \/ NavigatePage
    \/ FinishFull
    \/ DispatchAlert
    \/ Sleep
    \/ Catch
    \/ SiteResize

SpecResize == InitData /\ [][NextResize]_vars

\* Runs over a catalog with one malformed listing entry: every item known
\* and in stock, entry m of the listing without a sku, the listed prices in
\* every relation to the stored price 1.
InitMalformed ==
    /\ InitControl
    /\ NoClock
    /\ passesLeft = MaxPassesData
    /\ eventsLeft = MaxEvents
    /\ \E m \in Items, price \in [Items -> 1..MaxPrice], n \in 1..(MaxPages - 1) :
          /\ sitePages = n
          /\ site = [i \in Items |->
                      [listed |-> TRUE, price |-> price[i], stock |-> 1,
                       secret |-> FALSE, page |-> PageOf(i, n), sku |-> i # m]]
          /\ store = StoreOf(MaxItems, 0, [i \in Items |-> 1], [i \in Items |-> TRUE],
                             [i \in Items |-> DetailUrl(i)])

SpecMalformed == InitMalformed /\ [][NextData]_vars

\* Pagination runs: every item known and in stock, item 1 listed at any
\* price, over any number of listing pages.
InitPaging ==
    /\ InitControl
    /\ NoClock
    /\ passesLeft = MaxPassesData
    /\ eventsLeft = MaxEvents
    /\ \E p \in 1..MaxPrice, n \in Pages :
          /\ sitePages = n
          /\ site = SiteOf(MaxItems, n, [i \in Items |-> IF i = 1 THEN p ELSE 1],
                           [i \in Items |-> 1], {})
          /\ store = StoreOf(MaxItems, 0, [i \in Items |-> 1], [i \in Items |-> TRUE],
                             [i \in Items |-> DetailUrl(i)])

\* full-catalog passes whose awaited operations all settle: page.goto
\* resolves or rejects within PAGE_WAIT_TIMEOUT, the store operations resolve
\* or reject
SpecPaging ==
    /\ InitPaging
    /\ [][NextData]_vars
    /\ WF_vars(NavigatePage)
    /\ WF_vars(FinishFull)

\* monitor() with a notifier that may reject any call
NotifyDispatchAlert == \E ok \in BOOLEAN : DispatchAlertWith(ok)

NotifyCatch == \E ok \in BOOLEAN : CatchWith(ok)

NotifyCooldown == \E ok \in BOOLEAN : CooldownWith(ok)

NextNotify ==
    \/ StartFull
    \/ StartHot
    \/ NavigatePage
    \/ FinishFull
    \/ ProbeProduct
    \/ FinishHot
    \/ NotifyDispatchAlert
    \/ Sleep
    \/ NotifyCatch
    \/ NotifyCooldown

SpecNotify == Init /\ [][NextNotify]_vars

\* ------------------------------------------- scraper.js (the first version)
\* The first version keeps the scraper state in module variables: cache,
\* allProductsMap and currentPage outlive a pass, scraperInit() resets the
\* others.  It launches a browser of its own each pass.

\* updateField(field, newValue) of the first version: an OTHER alert for a
\* change of price or url
LegacyUpdateField(st, i, field, newValue) ==
    IF st.map[i][field] # newValue
    THEN LET product == [st.map[i] EXCEPT ![field] = newValue]
         IN  [map |-> [st.map EXCEPT ![i] = product],
              changed |-> (i :> product) @@ st.changed,
              alerts |-> IF field \in {"price", "url"}
                         THEN Append(st.alerts, <<i, ChangeTypeAlert.Other>>)
                         ELSE st.alerts]
    ELSE st

\* the body of forEach of the first version's response handler
LegacyReconcileItem(st, i, page) ==
    LET rawPrice == site[i].price
        inStock == ~(site[i].stock = 0)
        isPopNow == site[i].secret
        productUrl == IF ~isPopNow THEN DetailUrl(i) ELSE SearchUrl(page)
    IN  IF ~Known(st.map, i)
        THEN [map |-> st.map,
              changed |-> (i :> Doc(rawPrice, inStock, productUrl, FALSE)) @@ st.changed,
              alerts |-> Append(st.alerts, <<i, ChangeTypeAlert.NEW_ITEM>>)]
        ELSE LET s1 == IF inStock /\ ~st.map[i].in_stock
                       THEN LegacyUpdateField([st EXCEPT !.alerts =
                                                  Append(@, <<i, ChangeTypeAlert.RESTOCK>>)],
                                              i, "in_stock", inStock)
                       ELSE st
                 s2 == LegacyUpdateField(s1, i, "price", rawPrice)
             IN  LegacyUpdateField(s2, i, "url", productUrl)

RECURSIVE LegacyReconcileFrom(_, _, _)
LegacyReconcileFrom(st, i, page) ==
    IF i > MaxItems THEN st
    ELSE LegacyReconcileFrom(IF i \in Listing(page)
                             THEN LegacyReconcileItem(st, i, page) ELSE st,
                             i + 1, page)

\* the response handler of the first version for the listing response of page
LegacyReconcilePage(st, page) == LegacyReconcileFrom(st, 1, page)

\* the catch block of the first version's pagination loop and the increment
\* after it
LegacyAfterNavFailure(page, fails, retries) ==
    IF page = 1
    THEN [page |-> page, pageFails |-> fails + 1, firstPageRetries |-> retries + 1,
          thrown |-> retries + 1 >= MAX_PAGE_FAILS, skip |-> FALSE]
    ELSE IF fails + 1 >= MAX_PAGE_FAILS
         THEN [page |-> page + 1, pageFails |-> 0, firstPageRetries |-> retries,
               thrown |-> FALSE, skip |-> TRUE]
         ELSE [page |-> page, pageFails |-> fails + 1, firstPageRetries |-> retries,
               thrown |-> FALSE, skip |-> FALSE]

\* monitor() of the first version outside the hot hours: checkProducts() up to
\* its pagination loop.  scraperInit() leaves cache, allProductsMap and
\* currentPage as the pass before left them; totalPages is a local.
LegacyBeginFull(mode) ==
    /\ Idle
    /\ passesLeft > 0
    /\ passesLeft' = passesLeft - 1
    /\ runMode' = mode
    /\ alertProducts' = <<>>
    /\ pageFails' = 0
    /\ firstPageRetries' = 0
    /\ changedProductsMap' = EmptyMap
    /\ totalPages' = 1
    /\ attempts' = 0
    /\ fetched' = {}
    /\ skipped' = {}
    /\ obsLog' = <<>>
    /\ probed' = <<>>
    /\ observed' = {}
    /\ store0' = store
    /\ bulkWrites' = 0
    /\ sent' = <<>>
    /\ trafficAlerts' = 0
    /\ startFailures' = consecutiveFailures
    /\ \E launchOk \in BOOLEAN, findOk \in BOOLEAN :
          IF ~launchOk \/ (~cache /\ ~findOk)
          THEN /\ pc' = "caught"
               /\ err' = "Other"
               /\ UNCHANGED allProductsMap
          ELSE /\ pc' = "full"
               /\ err' = "none"
               /\ allProductsMap' = IF cache THEN allProductsMap ELSE store
    /\ UNCHANGED <<consecutiveFailures, sharedBrowser, dataVars, cache, currentPage,
                   probeVars, operatorAlerts, failRun, failsSinceOk, resetFrom,
                   eventsLeft>>

\* monitor() of the first version outside the hot hours (regular interval)
LegacyStartFull ==
    /\ LegacyBeginFull("regular")
    /\ UNCHANGED <<clockVars, asyncVars, notifyVars>>

\* one iteration of the first version's pagination loop
LegacyNavigatePage ==
    /\ pc = "full"
    /\ currentPage <= totalPages
    /\ \E ok \in BOOLEAN, resp \in BOOLEAN :
          LET st0 == [map |-> allProductsMap, changed |-> changedProductsMap,
                      alerts |-> alertProducts]
              st1 == IF resp THEN LegacyReconcilePage(st0, currentPage) ELSE st0
              f == LegacyAfterNavFailure(currentPage, pageFails, firstPageRetries)
          IN  /\ allProductsMap' = st1.map
              /\ changedProductsMap' = st1.changed
              /\ alertProducts' = st1.alerts
              /\ totalPages' = IF resp THEN sitePages ELSE totalPages
              /\ obsLog' = IF resp THEN Append(obsLog, currentPage) ELSE obsLog
              /\ observed' = IF resp THEN observed \cup Listing(currentPage) ELSE observed
              /\ IF ok
                 THEN /\ currentPage' = currentPage + 1
                      /\ fetched' = fetched \cup {currentPage}
                      /\ attempts' = 0
                      /\ UNCHANGED <<pageFails, firstPageRetries, skipped, pc, err>>
                 ELSE /\ pageFails' = f.pageFails
                      /\ firstPageRetries' = f.firstPageRetries
                      /\ currentPage' = f.page
                      /\ attempts' = IF f.page = currentPage THEN attempts + 1 ELSE 0
                      /\ skipped' = IF f.skip THEN skipped \cup {currentPage} ELSE skipped
                      /\ pc' = IF f.thrown THEN "caught" ELSE pc
                      /\ err' = IF f.thrown THEN "PageError" ELSE err
                      /\ UNCHANGED fetched
    /\ UNCHANGED <<runMode, consecutiveFailures, sharedBrowser, dataVars, cache,
                   probeVars, probed, store0, bulkWrites, alertHist, runHist, budget>>
    /\ UNCHANGED <<clockVars, asyncVars, notifyVars>>

\* the end of the first version's checkProducts: browser.close, updateDb,
\* return
LegacyFinishFull ==
    /\ pc = "full"
    /\ currentPage > totalPages
    /\ UpdateDbAndReturn
    /\ UNCHANGED <<runMode, sharedBrowser, site, sitePages, allProductsMap, changeVars,
                   pageVars, probeVars, pageHist, probed, observed, store0, alertHist,
                   startFailures, budget>>
    /\ UNCHANGED <<clockVars, asyncVars, notifyVars>>

\* monitor() of the first version outside the hot hours; its try and catch
\* blocks do for a returned pass, PageError and other exceptions what the
\* later version does
NextLegacy ==
    \/ LegacyStartFull
    \/ LegacyNavigatePage
    \/ LegacyFinishFull
    \/ DispatchAlert
    \/ Sleep
    \/ Catch

\* First-version runs: item 1 in every relation to its listing, the others
\* absent, over 1..MaxPages listing pages.
InitLegacy ==
    /\ InitControl
    /\ NoClock
    /\ passesLeft = MaxPassesLegacy
    /\ eventsLeft = MaxEvents
    /\ \E p1 \in KnownProfiles \cup NewProfiles, n \in Pages :
          DataOf([i \in Items |-> IF i = 1 THEN p1 ELSE Absent], n)

SpecLegacy == InitLegacy /\ [][NextLegacy]_vars

\* monitor() of the first version inside the hot hours: checkHotProducts() of
\* the first scraper up to its probe loop.  scraperInit() leaves cache,
\* allProductsMap and currentPage as they are; the browser is launched here.
LegacyStartHot ==
    /\ Idle
    /\ passesLeft > 0
    /\ passesLeft' = passesLeft - 1
    /\ runMode' = "throttle"
    /\ alertProducts' = <<>>
    /\ pageFails' = 0
    /\ firstPageRetries' = 0
    /\ changedProductsMap' = EmptyMap
    /\ hotIdx' = 1
    /\ failedCount' = 0
    /\ attempts' = 0
    /\ fetched' = {}
    /\ skipped' = {}
    /\ obsLog' = <<>>
    /\ probed' = <<>>
    /\ observed' = {}
    /\ store0' = store
    /\ bulkWrites' = 0
    /\ sent' = <<>>
    /\ trafficAlerts' = 0
    /\ startFailures' = consecutiveFailures
    /\ \E launchOk \in BOOLEAN, findOk \in BOOLEAN :
          IF ~launchOk \/ ~findOk
          THEN /\ pc' = "caught"
               /\ err' = "Other"
               /\ priorityProducts' = <<>>
          ELSE /\ pc' = "hot"
               /\ err' = "none"
               /\ priorityProducts' = PriorityFrom(store, 1)
    /\ UNCHANGED <<consecutiveFailures, sharedBrowser, dataVars, allProductsMap, cache,
                   currentPage, totalPages, operatorAlerts, failRun, failsSinceOk,
                   resetFrom, eventsLeft>>
    /\ UNCHANGED <<clockVars, asyncVars, notifyVars>>

\* the end of the first version's checkHotProducts: browser.close, updateDb,
\* return
LegacyFinishHot ==
    /\ pc = "hot"
    /\ hotIdx > Len(priorityProducts)
    /\ UpdateDbAndReturn
    /\ UNCHANGED <<runMode, sharedBrowser, site, sitePages, allProductsMap, changeVars,
                   pageVars, probeVars, pageHist, probed, observed, store0, alertHist,
                   startFailures, budget>>
    /\ UNCHANGED <<clockVars, asyncVars, notifyVars>>

\* monitor() of the first version in and outside the hot hours; the probe
\* loop of its checkHotProducts is the loop of the later version
NextLegacyMix ==
    \/ LegacyStartFull
    \/ LegacyStartHot
    \/ LegacyNavigatePage
    \/ LegacyFinishFull
    \/ ProbeProduct
    \/ LegacyFinishHot
    \/ DispatchAlert
    \/ Sleep
    \/ Catch
    \/ Cooldown

SpecLegacyMix == InitLegacy /\ [][NextLegacyMix]_vars

\* --------------------------------- monitor() with the inline mode selection
\* The version of monitor() that selects the mode in an if-chain of its own
\* (no getInterval yet) and requires the first scraper.

\* Number(b) of a boolean, as Math.abs applies it to its argument
BoolToNumber(b) == IF b THEN 1 ELSE 0

\* the truth value JavaScript gives a number in a condition
Truthy(n) == n # 0

\* the if-chain of monitor(): the mode it logs and the CHECK_INTERVAL it sets.
\* The standby test is
\*   HOT_DAYS.includes(curDay) && Math.abs(curHour - start <= 2)
\*                             || Math.abs(end - curHour <= 2)
\* where each Math.abs is applied to the boolean of the comparison.
InlineInterval(day, hour) ==
    LET isHotTime == day \in HOT_DAYS /\ hour >= HOT_HOURS_START /\ hour < HOT_HOURS_END
        Abs(x) == IF x < 0 THEN -x ELSE x
        nearStart == Abs(BoolToNumber(hour - HOT_HOURS_START <= 2))
        nearEnd == Abs(BoolToNumber(HOT_HOURS_END - hour <= 2))
    IN  IF isHotTime THEN [interval |-> CHECK_INTERVAL_PEAK, mode |-> "throttle"]
        ELSE IF (day \in HOT_DAYS /\ Truthy(nearStart)) \/ Truthy(nearEnd)
             THEN [interval |-> CHECK_INTERVAL_OFF_PEAK, mode |-> "standby"]
        ELSE [interval |-> CHECK_INTERVAL_SNOOZE, mode |-> "snooze"]

\* monitor(): loop top at the time now, outside the hot time: the if-chain,
\* then checkProducts() of the first scraper up to its pagination loop
InlineStartFull ==
    LET r == InlineInterval(now.day, now.hour)
    IN  /\ r.mode # "throttle"
        /\ LegacyBeginFull(r.mode)
        /\ interval' = r.interval
        /\ UNCHANGED <<now, asyncVars, notifyVars>>

\* monitor() with the inline selection started at any hour of the week
\* outside the hot time, over a one-item catalog; every pass of the run reads
\* the same hour off the clock.
InitInline ==
    /\ InitControl
    /\ passesLeft = MaxPassesClock
    /\ eventsLeft = MaxEvents
    /\ now \in {t \in [day : Days, hour : Hours] :
                    InlineInterval(t.day, t.hour).mode # "throttle"}
    /\ interval = 0
    /\ \E p1 \in [known : {TRUE}, listed : {TRUE}, in_stock : BOOLEAN, prio : {FALSE},
                  stock : {1}, price : {1}, secret : {FALSE}] :
          DataOf([i \in Items |-> IF i = 1 THEN p1 ELSE Absent], 1)

NextInline ==
    \/ InlineStartFull
    \/ LegacyNavigatePage
    \/ LegacyFinishFull
    \/ DispatchAlert
    \/ Sleep
    \/ Catch

SpecInline == InitInline /\ [][NextInline]_vars

\* ------------------------------------------------------- clock-driven runs
\* monitor() started at any hour of the week over a one-item catalog; every
\* pass of the run reads the same hour off the clock.
InitClock ==
    /\ InitControl
    /\ passesLeft = MaxPassesClock
    /\ eventsLeft = MaxEvents
    /\ now \in [day : Days, hour : Hours]
    /\ interval = 0
    /\ sitePages = 1
    /\ \E s \in BOOLEAN, t \in BOOLEAN :
          /\ site = SiteOf(1, sitePages, [i \in Items |-> 1],
                           [i \in Items |-> IF t THEN 1 ELSE 0], {})
          /\ store = StoreOf(1, 1, [i \in Items |-> 1], [i \in Items |-> s],
                             [i \in Items |-> DetailUrl(i)])

NextClock ==
    \/ ClockStartFull
    \/ ClockStartHot
    \/ NavigatePage
    \/ FinishFull
    \/ ProbeProduct
    \/ FinishHot
    \/ DispatchAlert
    \/ Sleep
    \/ Catch
    \/ Cooldown

SpecClock == InitClock /\ [][NextClock]_vars

\* ------------------------------------------------- runs without a failure
\* monitor() while every page navigation resolves and carries its listing
\* response, every probe captures its payload, and every store operation
\* (Product.find, Product.bulkWrite) resolves.

CalmStartFull ==
    /\ \E mode \in ClockModes : BeginFullWith(mode, TRUE)
    /\ UNCHANGED <<clockVars, asyncVars, notifyVars>>

CalmStartHot ==
    /\ \E mode \in ClockModes : BeginHotWith(mode, TRUE)
    /\ UNCHANGED <<clockVars, asyncVars, notifyVars>>

CalmNavigatePage == NavigatePageWith(TRUE, TRUE) /\ UNCHANGED asyncVars

CalmFinishFull == FinishFullWith(TRUE) /\ UNCHANGED asyncVars

CalmProbeProduct == ProbeProductWith("data") /\ UNCHANGED asyncVars

CalmFinishHot == FinishHotWith(TRUE) /\ UNCHANGED asyncVars

NextCalm ==
    \/ CalmStartFull
    \/ CalmStartHot
    \/ CalmNavigatePage
    \/ CalmFinishFull
    \/ CalmProbeProduct
    \/ CalmFinishHot
    \/ DispatchAlert
    \/ Sleep
    \/ Catch
    \/ SiteStock

\* every item known and listed at the stored price, on one or two listing
\* pages, 1..j of them priority items, the stock on the site and in the store
\* uniform
InitCalm ==
    /\ InitControl
    /\ NoClock
    /\ passesLeft = MaxPassesCalm
    /\ eventsLeft = MaxEvents
    /\ sitePages \in 1..(MaxPages - 1)
    /\ \E j \in {1, MaxItems}, s \in BOOLEAN, t \in BOOLEAN :
          /\ site = SiteOf(MaxItems, sitePages, [i \in Items |-> 1],
                           [i \in Items |-> IF t THEN 1 ELSE 0], {})
          /\ store = StoreOf(MaxItems, j, [i \in Items |-> 1], [i \in Items |-> s],
                             [i \in Items |-> DetailUrl(i)])

SpecCalm == InitCalm /\ [][NextCalm]_vars

\* ------------------------------------- runs with the handler interleaved
\* page.on('response', async ...) is not awaited by anything: the handler
\* awaits response.json() and then runs to its end in one piece, either
\* before page.goto settles (the steps above) or during a later await of the
\* driver.  inflight holds the responses captured by a navigation whose
\* handler has not run yet.

ListingResponse(page) == [kind |-> "listing", n |-> page]
DetailResponse(id) == [kind |-> "detail", n |-> id]

AsyncStartFull ==
    /\ \E mode \in ClockModes, findOk \in BOOLEAN : BeginFullWith(mode, findOk)
    /\ inflight' = {}
    /\ UNCHANGED <<clockVars, notifyVars>>

AsyncStartHot ==
    /\ \E mode \in ClockModes, findOk \in BOOLEAN : BeginHotWith(mode, findOk)
    /\ inflight' = {}
    /\ UNCHANGED <<clockVars, notifyVars>>

\* one iteration of the pagination loop: the listing response is handled
\* before page.goto settles ("intime"), is captured but still unhandled when
\* the loop goes on ("late"), or is not captured ("none")
AsyncNavigatePage ==
    \E ok \in BOOLEAN, timing \in {"intime", "late", "none"} :
        /\ NavigatePageWith(ok, timing = "intime")
        /\ inflight' = IF timing = "late"
                       THEN inflight \cup {ListingResponse(currentPage)}
                       ELSE inflight

\* the handler of a listing response captured by an earlier navigation runs
\* during an await of the pagination loop.  After the loop has ended
\* (currentPage > totalPages, the driver awaiting page.close) totalPages is
\* not read any more and is left as it is.
HandleListing ==
    /\ pc = "full"
    /\ \E r \in inflight :
          /\ r.kind = "listing"
          /\ LET st0 == [map |-> allProductsMap, changed |-> changedProductsMap,
                         alerts |-> alertProducts]
                 st1 == ReconcileLateFrom(st0, 1, r.n, currentPage)
             IN  /\ allProductsMap' = st1.map
                 /\ changedProductsMap' = st1.changed
                 /\ alertProducts' = st1.alerts
          /\ totalPages' = IF currentPage <= totalPages THEN sitePages ELSE totalPages
          /\ obsLog' = Append(obsLog, r.n)
          /\ observed' = observed \cup Listing(r.n)
          /\ inflight' = inflight \ {r}
    /\ UNCHANGED <<ctlVars, dataVars, cache, currentPage, pageFails, firstPageRetries,
                   probeVars, attempts, fetched, skipped, probed, store0, bulkWrites,
                   alertHist, runHist, budget, clockVars, notifyVars>>

\* the end of checkProducts; page.close and browser.close drop the handlers
\* that have not run
AsyncFinishFull ==
    /\ \E writeOk \in BOOLEAN : FinishFullWith(writeOk)
    /\ inflight' = {}

\* one iteration of the probe loop: interceptedData = null, page.goto, then
\* data = interceptedData.  The product's own detail response is handled
\* before page.goto settles, or is still unhandled then (late); during the
\* await the handler of an earlier product's response may run (stale) and
\* leave its payload in interceptedData.
AsyncProbeProduct ==
    \E outcome \in ProbeOutcomes, late \in BOOLEAN,
       stale \in {0} \cup {r.n : r \in {x \in inflight : x.kind = "detail"}} :
        /\ outcome = "nodata" => stale = 0
        /\ late => ~(outcome = "data" /\ stale = 0)
        /\ ProbeProductFrom(outcome, stale)
        /\ inflight' = (inflight \ {DetailResponse(stale)})
                          \cup (IF late
                                THEN {DetailResponse(priorityProducts[hotIdx].id)}
                                ELSE {})

\* the end of checkHotProducts
AsyncFinishHot ==
    /\ \E writeOk \in BOOLEAN : FinishHotWith(writeOk)
    /\ inflight' = {}

NextAsync ==
    \/ AsyncStartFull
    \/ AsyncStartHot
    \/ AsyncNavigatePage
    \/ HandleListing
    \/ AsyncFinishFull
    \/ AsyncProbeProduct
    \/ AsyncFinishHot
    \/ DispatchAlert
    \/ Sleep
    \/ Catch
    \/ Cooldown

\* items 1 and 2 known priority items, each in any relation of its stored
\* stock flag to its stock on the site, item 2 possibly of secret type, on
\* one or two listing pages
InitAsync ==
    /\ InitControl
    /\ NoClock
    /\ passesLeft = MaxPassesAsync
    /\ eventsLeft = MaxEvents
    /\ \E s1 \in BOOLEAN, s2 \in BOOLEAN, t1 \in 0..MaxStock, t2 \in 0..MaxStock,
          x \in BOOLEAN, n \in 1..(MaxPages - 1) :
          DataOf([i \in Items |->
                   IF i = 1
                   THEN [known |-> TRUE, listed |-> TRUE, in_stock |-> s1, prio |-> TRUE,
                         stock |-> t1, price |-> 1, secret |-> FALSE]
                   ELSE IF i = 2
                   THEN [known |-> TRUE, listed |-> TRUE, in_stock |-> s2, prio |-> TRUE,
                         stock |-> t2, price |-> 1, secret |-> x]
                   ELSE Absent], n)

SpecAsync == InitAsync /\ [][NextAsync]_vars

\* ------------------------------------------------------------------- claims

\* C1: five passes in a row ending in a non-traffic failure, with no pass that
\* returned in between, end the loop: on the fifth failure the operator alert
\* is attempted once (and never before), the monitor terminates, and from
\* there nothing can happen any more: no pass starts, no retry sleep is taken.
C1_FatalEscalation ==
    /\ failRun <= MAX_CONSECUTIVE_FAILURES
    /\ failRun = MAX_CONSECUTIVE_FAILURES => pc = "terminated"
    /\ pc = "terminated" => operatorAlerts = 1 /\ ~ENABLED Next
    /\ pc # "terminated" => operatorAlerts = 0

C1_Witness ==
    /\ pc = "terminated"
    /\ failRun = MAX_CONSECUTIVE_FAILURES
    /\ operatorAlerts = 1

\* C2: a pass that returns sets the failure counter to zero whatever it was, so
\* the counter is the number of non-traffic failures since the last pass that
\* returned, and the monitor terminates only with MAX_CONSECUTIVE_FAILURES such
\* failures after it.
C2_SuccessResets ==
    /\ pc = "dispatch" => consecutiveFailures = 0
    /\ consecutiveFailures = failsSinceOk
    /\ pc = "terminated" => failsSinceOk = MAX_CONSECUTIVE_FAILURES

C2_Witness ==
    /\ pc = "dispatch"
    /\ resetFrom = MAX_CONSECUTIVE_FAILURES - 1
    /\ consecutiveFailures = 0

\* C3: a pass that ends with HighTrafficError leaves the failure counter as it
\* was when the pass started, attempts exactly one traffic alert and no product
\* alert, takes the cooldown before the monitor can start a pass again, and
\* does not terminate the monitor.
C3_TrafficFrame ==
    /\ [](err = "HighTrafficError" /\ pc # "caught" =>
            /\ consecutiveFailures = startFailures
            /\ trafficAlerts = 1
            /\ sent = <<>>
            /\ operatorAlerts = 0
            /\ pc \in {"cooldown", "retrySleep"})
    /\ [][pc = "caught" /\ err = "HighTrafficError" => pc' = "cooldown"]_vars
    /\ [][pc = "cooldown" => pc' = "retrySleep"]_vars

C3_Witness ==
    /\ err = "HighTrafficError"
    /\ pc = "retrySleep"
    /\ consecutiveFailures = MAX_CONSECUTIVE_FAILURES - 1
    /\ trafficAlerts = 1

\* the priority batch of the pass is over (returned or threw)
HotBatchOver == runMode = "throttle" /\ pc # "hot" /\ priorityProducts # <<>>

\* a full-catalog pass has returned into monitor()
FullPassReturned == pc = "dispatch" /\ runMode # "throttle"

\* C4: a priority batch ends with HighTrafficError exactly when the share of
\* failed probes went over FAIL_THRESHOLD during the batch, whatever the kind
\* of the failures (exception, or no detail payload captured).
C4_TripIffOverThreshold ==
    HotBatchOver =>
        ((err = "HighTrafficError") <=>
            OverThreshold(failedCount, Len(priorityProducts)))

\* C5: once the share of failed probes is over FAIL_THRESHOLD, no further
\* priority item is navigated to in the batch.
C5_NoProbeAfterTrip ==
    [][(pc = "hot" /\ OverThreshold(failedCount, Len(priorityProducts)))
          => probed' = probed]_vars

\* C6: PageError ends a full-catalog pass exactly when page 1 has failed
\* MAX_PAGE_FAILS times in a row: then no page was fetched or skipped, and the
\* pass made exactly MAX_PAGE_FAILS attempts, all at page 1; while page 1 has
\* failed fewer times the pass goes on, and once page 1 is fetched the pass
\* can no longer end with PageError.
C6_FirstPageAbort ==
    /\ err = "PageError" =>
          /\ pc # "full"
          /\ currentPage = 1
          /\ attempts = MAX_PAGE_FAILS
          /\ firstPageRetries = MAX_PAGE_FAILS
          /\ fetched = {}
          /\ skipped = {}
    /\ (pc = "full" /\ currentPage = 1) =>
          /\ attempts = firstPageRetries
          /\ attempts < MAX_PAGE_FAILS
    /\ pc = "full" => firstPageRetries < MAX_PAGE_FAILS
    /\ 1 \in fetched => err # "PageError" /\ firstPageRetries < MAX_PAGE_FAILS

C6_Witness ==
    /\ pc = "caught"
    /\ err = "PageError"
    /\ attempts = MAX_PAGE_FAILS
    /\ fetched = {}

\* C7: a full-catalog pass that returns has fetched every page of 1..N except
\* the pages it skipped after MAX_PAGE_FAILS failures in a row (N the page
\* count the pass holds).
C7_SkipOmitsOnePage ==
    FullPassReturned => fetched = (1..totalPages) \ skipped

\* C8: every full-catalog pass, the first and every later one, starts at
\* page 1 (a pass that has navigated nothing yet stands at page 1) and has
\* fetched page 1 when it returns.
C8_PassStartsAtPageOne ==
    /\ (pc = "full" /\ attempts = 0 /\ fetched = {} /\ skipped = {}) => currentPage = 1
    /\ FullPassReturned => 1 \in fetched

RECURSIVE ReplayFrom(_, _, _)
\* the response handler of checkProducts over the listing responses log[n..]
ReplayFrom(st, log, n) ==
    IF n > Len(log) THEN st
    ELSE ReplayFrom(ReconcilePage(st, log[n]), log, n + 1)

\* checkProducts() run again from the store as it is now, over the listing
\* responses the pass before it captured
SecondPass ==
    ReplayFrom([map |-> store, changed |-> EmptyMap, alerts |-> <<>>], obsLog, 1)

\* C9: after a full-catalog pass has returned (its changeset written), a
\* second full-catalog pass over the same listing responses has an empty
\* changeset, no alerts and no store write.
C9_SecondPassIdle ==
    FullPassReturned =>
        /\ SecondPass = [map |-> store, changed |-> EmptyMap, alerts |-> <<>>]
        /\ ~NeedsWrite(SecondPass.changed)

C9_Witness ==
    /\ FullPassReturned
    /\ bulkWrites = 1
    /\ Len(alertProducts) > 1
    /\ \E i \in DOMAIN changedProductsMap :
          /\ Known(store0, i)
          /\ store0[i].price # changedProductsMap[i].price

\* the alerts of the pass for item i with change type type
AlertsOf(i, type) == {n \in 1..Len(alertProducts) : alertProducts[n] = <<i, type>>}

\* C10: when a pass has returned, every known item it observed with stock zero
\* while the store held it in stock has exactly one SOLD_OUT alert, is out of
\* stock in the store and is in the changeset.
C10_SoldOutClassified ==
    pc = "dispatch" =>
        \A i \in observed :
            (Known(store0, i) /\ store0[i].in_stock /\ site[i].stock = 0) =>
                /\ Cardinality(AlertsOf(i, ChangeTypeAlert.SOLD_OUT)) = 1
                /\ ~store[i].in_stock
                /\ i \in DOMAIN changedProductsMap

\* the alerts of the pass for item i, of any change type
AlertsFor(i) == {n \in 1..Len(alertProducts) : alertProducts[n][1] = i}

\* productUrl of the response handler for item i as the site lists it
ObservedUrl(i) == IF site[i].secret THEN SearchUrl(site[i].page) ELSE DetailUrl(i)

\* the store held item i out of stock when the pass began and the pass
\* observed it with stock
CameBack(i) == Known(store0, i) /\ ~store0[i].in_stock /\ site[i].stock > 0

\* C11: when a pass (full-catalog or priority) has returned, every known item
\* it observed with stock while the store held it out of stock has exactly one
\* RESTOCK alert, however often it was observed, is in stock in the store and
\* is in the changeset; with price and url as stored it has no other alert.
C11_RestockOnce ==
    pc = "dispatch" =>
        \A i \in observed :
            CameBack(i) =>
                /\ Cardinality(AlertsOf(i, ChangeTypeAlert.RESTOCK)) = 1
                /\ store[i].in_stock
                /\ i \in DOMAIN changedProductsMap
                /\ (store0[i].price = site[i].price /\ store0[i].url = ObservedUrl(i))
                      => Cardinality(AlertsFor(i)) = 1

C11_Witness ==
    /\ FullPassReturned
    /\ Len(obsLog) > 1
    /\ \E i \in observed :
          /\ CameBack(i)
          /\ Cardinality(AlertsOf(i, ChangeTypeAlert.RESTOCK)) = 1
          /\ store[i].in_stock

\* the store did not hold item i when the pass began, and its listing has the
\* fields the new-item path asks for besides stock (a price; id, name and url
\* are there for every listed item)
UnseenComplete(i) == ~Known(store0, i) /\ site[i].price # 0

\* C12: when a full-catalog pass has returned, every item it observed that the
\* store did not hold, and that the new-item path does not skip, has exactly
\* one NEW_ITEM alert, however often it was observed, and no alert of another
\* type.
C12_NewItemOnce ==
    FullPassReturned =>
        \A i \in observed :
            (UnseenComplete(i) /\ site[i].stock > 0) =>
                /\ Cardinality(AlertsOf(i, ChangeTypeAlert.NEW_ITEM)) = 1
                /\ Cardinality(AlertsFor(i)) = 1

\* C13: when a full-catalog pass has returned, every item it observed that the
\* store did not hold and whose listing has id, name, price and url is in the
\* changeset with a NEW_ITEM alert, in stock or not.
C13_NewItemWhateverStock ==
    FullPassReturned =>
        \A i \in observed :
            UnseenComplete(i) =>
                /\ i \in DOMAIN changedProductsMap
                /\ AlertsOf(i, ChangeTypeAlert.NEW_ITEM) # {}

\* the store held item i when the pass began with the stock state and the
\* url the pass observed
SameStockAndUrl(i) ==
    /\ Known(store0, i)
    /\ store0[i].in_stock = (site[i].stock > 0)
    /\ store0[i].url = ObservedUrl(i)

\* C14: when a full-catalog pass has returned, every known item it observed
\* at a price other than the stored one, with stock state and url as stored,
\* has exactly one alert, a PRICE_CHANGE, has the observed price in the store
\* and is in the changeset.
C14_PriceChangeOnce ==
    FullPassReturned =>
        \A i \in observed :
            (SameStockAndUrl(i) /\ store0[i].price # site[i].price) =>
                /\ Cardinality(AlertsOf(i, ChangeTypeAlert.PRICE_CHANGE)) = 1
                /\ Cardinality(AlertsFor(i)) = 1
                /\ store[i].price = site[i].price
                /\ i \in DOMAIN changedProductsMap
                /\ changedProductsMap[i].price = site[i].price

C14_Witness ==
    /\ FullPassReturned
    /\ Len(obsLog) > 1
    /\ \E i \in observed :
          /\ SameStockAndUrl(i)
          /\ store0[i].price # site[i].price
          /\ store[i].price = site[i].price
          /\ Cardinality(AlertsOf(i, ChangeTypeAlert.PRICE_CHANGE)) = 1

\* the store held item i when the pass began with the stock state and the
\* price the pass observed, under another url
OnlyUrlDiffers(i) ==
    /\ Known(store0, i)
    /\ store0[i].in_stock = (site[i].stock > 0)
    /\ store0[i].price = site[i].price
    /\ store0[i].url # ObservedUrl(i)

\* C15: when a full-catalog pass has returned, every known item it observed
\* that differs from the stored document in its url only has the observed url
\* in the store, is in the changeset and has no alert.
C15_UrlChangeSilent ==
    FullPassReturned =>
        \A i \in observed :
            OnlyUrlDiffers(i) =>
                /\ store[i].url = ObservedUrl(i)
                /\ i \in DOMAIN changedProductsMap
                /\ changedProductsMap[i].url = ObservedUrl(i)
                /\ AlertsFor(i) = {}

C15_Witness ==
    /\ FullPassReturned
    /\ bulkWrites = 1
    /\ \E i \in observed :
          /\ OnlyUrlDiffers(i)
          /\ store[i].url = ObservedUrl(i)
          /\ AlertsFor(i) = {}

\* the iteration of monitor() at the time now has read the clock
ClockRead == pc # "start"

\* the weekday of t is a hot weekday and its hour is in [start, end)
InHotWindow(t) ==
    t.day \in HOT_DAYS /\ HOT_HOURS_START <= t.hour /\ t.hour < HOT_HOURS_END

\* C16: an iteration of monitor() runs in throttle mode exactly when the time
\* it read is a hot weekday with the hour in [start, end), then with the peak
\* interval; it calls checkHotProducts only in throttle mode and checkProducts
\* only in the other modes.
C16_ThrottleIffHotWindow ==
    ClockRead =>
        /\ (runMode = "throttle") <=> InHotWindow(now)
        /\ runMode = "throttle" => interval = CHECK_INTERVAL_PEAK
        /\ (pc = "hot" \/ probed # <<>>) => runMode = "throttle"
        /\ (pc = "full" \/ attempts > 0 \/ fetched # {}) => runMode # "throttle"

C16_Witness ==
    /\ pc = "hot"
    /\ runMode = "throttle"
    /\ now.hour = HOT_HOURS_END - 1
    /\ interval = CHECK_INTERVAL_PEAK

\* the weekday of t is a hot weekday and its hour is one of the two hours
\* that follow the end of the window: outside the window, within two hours of
\* its end, and not ahead of its start
JustAfterWindow(t) ==
    /\ t.day \in HOT_DAYS
    /\ HOT_HOURS_END <= t.hour
    /\ t.hour <= HOT_HOURS_END + 2

\* C17: on a hot weekday, at an hour outside the window and within two hours
\* of its end, an iteration of monitor() runs in standby mode with the
\* off-peak interval.
C17_StandbyNearWindow ==
    (ClockRead /\ JustAfterWindow(now)) =>
        /\ runMode = "standby"
        /\ interval = CHECK_INTERVAL_OFF_PEAK

\* C19: an iteration of monitor() runs in prep mode only on a hot weekday at
\* an hour before the start of the window, and its interval is then positive
\* and is the time left until the start (so it shrinks as the start nears).
C19_PrepBeforeWindow ==
    (ClockRead /\ runMode = "prep") =>
        /\ now.day \in HOT_DAYS
        /\ now.hour < HOT_HOURS_START
        /\ interval > 0
        /\ interval = HOT_HOURS_START - now.hour

\* C18: on a weekday that is not a hot weekday, an iteration of monitor()
\* runs in snooze mode with the snooze interval, at every hour of the day.
C18_SnoozeOffHotDays ==
    (ClockRead /\ now.day \notin HOT_DAYS) =>
        /\ runMode = "snooze"
        /\ interval = CHECK_INTERVAL_SNOOZE

\* C20: a call of checkProducts or checkHotProducts begins only at the top of
\* the loop (at start, or after the sleep that follows a returned or a failed
\* pass), never while a pass is in progress or alerts are being sent; when
\* the sleep after a returned pass is reached every alert of the pass has
\* been sent, and a pass in progress is either the full-catalog pass or the
\* priority batch, as the mode says.
C20_OnePassAtATime ==
    /\ [][passesLeft' # passesLeft =>
            /\ pc \in {"start", "sleep", "retrySleep"}
            /\ pc' \in {"full", "hot", "caught"}
            /\ passesLeft' = passesLeft - 1]_vars
    /\ [](pc = "sleep" => sent = alertProducts)
    /\ [](pc = "full" => runMode # "throttle" /\ probed = <<>>)
    /\ [](pc = "hot" => runMode = "throttle" /\ attempts = 0 /\ fetched = {})

C20_Witness ==
    /\ pc \in {"full", "hot"}
    /\ passesLeft <= MaxPasses - 2
    /\ resetFrom = 0
    /\ sent = <<>>

\* the filters of the bulk operations built from the changeset
BulkFilters(ops) == {ops[n].filter : n \in 1..Len(ops)}

\* C21: when a pass has returned it has issued exactly one bulk write if its
\* changeset is not empty and none if it is empty; the operations built from
\* the changeset are one per changed item id, filtered by that id, and the
\* store is the store of the start of the pass with these upserts applied;
\* the cache flag is true exactly when the changeset is empty.
C21_OneBulkUpsert ==
    pc = "dispatch" =>
        LET ops == buildBulkOps(changedProductsMap)
        IN  /\ bulkWrites = IF DOMAIN changedProductsMap # {} THEN 1 ELSE 0
            /\ cache = (DOMAIN changedProductsMap = {})
            /\ Len(ops) = Cardinality(DOMAIN changedProductsMap)
            /\ BulkFilters(ops) = DOMAIN changedProductsMap
            /\ \A i \in DOMAIN changedProductsMap :
                  Cardinality({n \in 1..Len(ops) : ops[n].filter = i}) = 1
            /\ store = ApplyBulkOps(store0, ops, 1)
            /\ DOMAIN changedProductsMap = {} => store = store0

C21_Witness ==
    /\ pc = "dispatch"
    /\ bulkWrites = 1
    /\ Cardinality(DOMAIN changedProductsMap) > 1
    /\ ~cache
    /\ store # store0

\* a full-catalog pass is in its pagination loop or has returned
InFullPass == runMode # "throttle" /\ pc \in {"full", "dispatch"}

\* the store held item i out of stock and at another price than the pass
\* observed: a restock followed by a price change
RestockAndPrice(i) == CameBack(i) /\ store0[i].price # site[i].price

\* C22: during a full-catalog pass the changeset has an entry only for items
\* the pass observed, one per id; the entry of a known item is the product as
\* the pass holds it after every update so far, and when the pass has returned
\* the store holds its price, stock flag and url.  A restock followed by a
\* price change leaves one entry with the new stock flag and the new price.
C22_ChangesetFinalState ==
    InFullPass =>
        /\ DOMAIN changedProductsMap \subseteq observed
        /\ Len(buildBulkOps(changedProductsMap)) <= Cardinality(observed)
        /\ \A i \in DOMAIN changedProductsMap :
              /\ Known(allProductsMap, i) => changedProductsMap[i] = allProductsMap[i]
              /\ changedProductsMap[i].price = site[i].price
              /\ changedProductsMap[i].url = ObservedUrl(i)
              /\ RestockAndPrice(i) => changedProductsMap[i].in_stock
              /\ pc = "dispatch" =>
                    /\ store[i].price = changedProductsMap[i].price
                    /\ store[i].in_stock = changedProductsMap[i].in_stock
                    /\ store[i].url = changedProductsMap[i].url

C22_Witness ==
    /\ FullPassReturned
    /\ \E i \in DOMAIN changedProductsMap :
          /\ RestockAndPrice(i)
          /\ changedProductsMap[i].in_stock
          /\ changedProductsMap[i].price = site[i].price
          /\ Cardinality(AlertsFor(i)) = 2
          /\ store[i] = changedProductsMap[i]

\* the first n alert events of the pass
AlertPrefix(n) == SubSeq(alertProducts, 1, n)

\* C23: after a pass has returned, monitor() calls sendAlert once per alert
\* event of the pass, in the order of the events: what has been sent is at
\* every moment a prefix of the events, each call sends the next event, the
\* sleep is reached only with every event sent, and nothing is sent outside
\* the loop that follows a returned pass.
C23_DispatchInOrder ==
    /\ [](Len(sent) <= Len(alertProducts) /\ sent = AlertPrefix(Len(sent)))
    /\ [](pc = "sleep" => sent = alertProducts)
    /\ [](pc \notin {"dispatch", "sleep"} => sent = <<>>)
    /\ [][sent' # sent /\ sent' # <<>> =>
            /\ pc = "dispatch" /\ pc' = "dispatch"
            /\ alertProducts' = alertProducts
            /\ sent' = Append(sent, alertProducts[Len(sent) + 1])]_vars
    /\ [][pc = "dispatch" /\ pc' # "dispatch" =>
            pc' = "sleep" /\ sent = alertProducts]_vars

C23_Witness ==
    /\ pc = "sleep"
    /\ Len(alertProducts) >= 2
    /\ sent = alertProducts
    /\ sent[1] # sent[2]

\* a priority batch that has started and whose share of failed probes is not
\* over FAIL_THRESHOLD (it never was: the failed count only grows)
BatchUnderThreshold ==
    /\ runMode = "throttle"
    /\ priorityProducts # <<>>
    /\ ~OverThreshold(failedCount, Len(priorityProducts))

\* the stock flag the store held for item i when the pass began differs from
\* what the site shows
StockDiffers(i) == store0[i].in_stock # (site[i].stock > 0)

\* C24: in a priority batch whose share of failed probes stays within
\* FAIL_THRESHOLD, a failed probe (no payload, or an exception) is counted and
\* the batch goes on: HighTrafficError is not thrown, the items are probed one
\* by one in order, each once, the batch leaves its loop only with every
\* priority item probed, and when the pass has returned the stock changes of
\* the items that gave a payload are in the store, each with its one alert,
\* while the items whose probe failed are as they were.
C24_ProbeFailureTolerated ==
    BatchUnderThreshold =>
        /\ err # "HighTrafficError"
        /\ probed = [n \in 1..(hotIdx - 1) |-> priorityProducts[n].id]
        /\ failedCount = Len(probed) - Cardinality(observed)
        /\ pc # "hot" => Len(probed) = Len(priorityProducts)
        /\ pc = "dispatch" =>
              \A n \in 1..Len(priorityProducts) :
                  LET i == priorityProducts[n].id
                  IN  IF i \in observed
                      THEN /\ store[i].in_stock = (site[i].stock > 0)
                           /\ (i \in DOMAIN changedProductsMap) <=> StockDiffers(i)
                           /\ Cardinality(AlertsFor(i)) = IF StockDiffers(i) THEN 1 ELSE 0
                           /\ StockDiffers(i) =>
                                 Cardinality(AlertsOf(i,
                                    IF site[i].stock > 0 THEN ChangeTypeAlert.RESTOCK
                                    ELSE ChangeTypeAlert.SOLD_OUT)) = 1
                      ELSE /\ store[i] = store0[i]
                           /\ AlertsFor(i) = {}

C24_Witness ==
    /\ BatchUnderThreshold
    /\ pc = "dispatch"
    /\ failedCount = 1
    /\ Len(probed) = MaxItems
    /\ Len(alertProducts) = MaxItems - 1
    /\ bulkWrites = 1

\* C25: when monitor() is at the top of its loop, about to start a pass, the
\* shared browser handle is null or refers to a browser that is open (never
\* to a browser that was closed).
C25_HandleNeverClosed ==
    Idle => sharedBrowser \in {"null", "open"}

\* C26: while no page navigation, payload extraction or store operation
\* fails, no pass ends in the catch block of monitor(): the failure counter
\* stays at zero, no retry sleep is taken and the monitor never terminates,
\* whatever the sequence of priority and full-catalog passes.
C26_CalmRunNeverFails ==
    /\ pc \notin {"caught", "retrySleep", "terminated"}
    /\ err = "none"
    /\ consecutiveFailures = 0
    /\ operatorAlerts = 0

\* C27: when a full-catalog pass has returned with no page skipped, the store
\* holds every item the pass observed, with the stock state and the price the
\* pass observed.
C27_StoreConverges ==
    (FullPassReturned /\ skipped = {}) =>
        \A i \in observed :
            /\ Known(store, i)
            /\ store[i].in_stock = (site[i].stock > 0)
            /\ store[i].price = site[i].price

\* C28: a page is skipped only by the failure of its MAX_PAGE_FAILS-th
\* navigation in a row (the navigations of the page made before the skipping
\* one all failed, and there are MAX_PAGE_FAILS - 1 of them), whatever
\* failures the pass counted on the pages before it.
C28_SkipAfterThreeOnSamePage ==
    [][skipped' # skipped =>
          /\ attempts = MAX_PAGE_FAILS - 1
          /\ currentPage >= 2
          /\ skipped' = skipped \cup {currentPage}]_vars

\* the pass ended with PageError or HighTrafficError
PassAborted == err \in {"PageError", "HighTrafficError"}

\* C29: a pass that ended with PageError or HighTrafficError has written
\* nothing to the store and none of its alert events is sent; the pass after
\* it starts from the store alone (empty changeset, no alert events, known
\* products as the store holds them), so a full-catalog pass run from the
\* store over the listing responses of the aborted pass finds the changeset
\* and the alert events the aborted pass had found, and every stock change
\* the aborted priority batch had found still shows between store and site.
C29_AbortLosesNothing ==
    /\ [](PassAborted =>
            /\ bulkWrites = 0
            /\ store = store0
            /\ sent = <<>>
            /\ pc \in {"caught", "cooldown", "retrySleep", "terminated"})
    /\ []((pc = "caught" /\ err = "PageError") =>
            LET again == ReplayFrom([map |-> store, changed |-> EmptyMap,
                                     alerts |-> <<>>], obsLog, 1)
            IN  /\ again.alerts = alertProducts
                /\ again.changed = changedProductsMap)
    /\ []((pc = "caught" /\ err = "HighTrafficError") =>
            \A n \in 1..Len(alertProducts) :
                LET i == alertProducts[n][1]
                IN  /\ store[i].in_stock # (site[i].stock > 0)
                    /\ alertProducts[n][2] = IF site[i].stock > 0
                                             THEN ChangeTypeAlert.RESTOCK
                                             ELSE ChangeTypeAlert.SOLD_OUT)
    /\ [][passesLeft' < passesLeft =>
            /\ changedProductsMap' = EmptyMap
            /\ alertProducts' = <<>>
            /\ pc' = "full" => allProductsMap' = store
            /\ pc' = "hot" => priorityProducts' = PriorityFrom(store, 1)]_vars

C29_Witness ==
    /\ pc = "caught"
    /\ err = "PageError"
    /\ Len(alertProducts) > 0
    /\ DOMAIN changedProductsMap # {}
    /\ store = store0
    /\ sent = <<>>

\* the change the alert event ev = <<id, type>> reports is in the store, and
\* was not in the store when the pass began
Written(ev) ==
    LET i == ev[1]
        type == ev[2]
    IN  /\ i \in DOMAIN changedProductsMap
        /\ Known(store, i)
        /\ store[i].price = changedProductsMap[i].price
        /\ store[i].in_stock = changedProductsMap[i].in_stock
        /\ store[i].url = changedProductsMap[i].url
        /\ type = ChangeTypeAlert.NEW_ITEM => ~Known(store0, i)
        /\ type = ChangeTypeAlert.RESTOCK =>
              Known(store0, i) /\ ~store0[i].in_stock /\ store[i].in_stock
        /\ type = ChangeTypeAlert.SOLD_OUT =>
              Known(store0, i) /\ store0[i].in_stock /\ ~store[i].in_stock
        /\ type = ChangeTypeAlert.PRICE_CHANGE =>
              Known(store0, i) /\ store0[i].price # store[i].price

\* C30: every alert event sent to the notifier reports a change the bulk
\* write of the same pass has put into the store; a pass whose bulk write
\* failed sends nothing and leaves the store as it was; and from the bulk
\* write to the next pass the alert events and the changeset stay as they
\* are.
C30_AlertsAfterWrite ==
    /\ [](sent # <<>> =>
            /\ bulkWrites = 1
            /\ \A n \in 1..Len(sent) : Written(sent[n]))
    /\ [](pc = "dispatch" => \A n \in 1..Len(alertProducts) : Written(alertProducts[n]))
    /\ []((pc # "start" /\ bulkWrites = 0) => sent = <<>> /\ store = store0)
    /\ [][(pc \in {"dispatch", "sleep"} /\ passesLeft' = passesLeft) =>
            /\ alertProducts' = alertProducts
            /\ changedProductsMap' = changedProductsMap
            /\ store' = store]_vars

C30_Witness ==
    /\ pc = "sleep"
    /\ bulkWrites = 1
    /\ Len(sent) >= 2
    /\ sent[1][2] # sent[2][2]
    /\ \A n \in 1..Len(sent) : Written(sent[n])

\* C31: in a full-catalog pass no listing response is left unhandled when the
\* pagination loop has gone on from the navigation that captured it, and the
\* url the pass gives an item is the url of the page that lists it (for a
\* secret-type item, the search url of page k).
C31_ReconciledBeforeAdvance ==
    InFullPass =>
        /\ pc = "full" => {r \in inflight : r.kind = "listing"} = {}
        /\ \A i \in DOMAIN changedProductsMap :
              changedProductsMap[i].url = ObservedUrl(i)

\* C32: in a priority batch the stock flag the prober gives a product is the
\* stock state of that product on the site (the payload it classified the
\* product with is the product's own).
C32_PayloadIsOwn ==
    (runMode = "throttle" /\ pc \in {"hot", "dispatch"}) =>
        \A i \in DOMAIN changedProductsMap :
            changedProductsMap[i].in_stock = (site[i].stock > 0)

\* a full-catalog pass of the first scraper has begun without reloading the
\* known products (cache true) and has not handled a response yet
PassOnCachedMap == pc = "full" /\ cache /\ obsLog = <<>>

\* C33: a full-catalog pass that begins on the known products it kept from
\* the pass before (cache true) begins on the products the store holds, with
\* the field values the store holds.
C33_CachedMapIsStore ==
    PassOnCachedMap => allProductsMap = store

\* C34: once a full-catalog pass has handled a listing response, the number
\* of pages its driver will fetch stays as it is until the pass ends.
C34_TotalPagesFixed ==
    [][(pc = "full" /\ pc' = "full" /\ obsLog # <<>>) => totalPages' = totalPages]_vars

\* C35: every well-formed entry of a listing response the handler has dealt
\* with is reconciled, whatever other entries the response carries: the known
\* product has the listed price.
C35_OtherEntriesReconciled ==
    \A i \in observed :
        (site[i].sku /\ Known(allProductsMap, i)) =>
            allProductsMap[i].price = site[i].price

\* the pass returned from checkProducts: the loop is over and the changeset,
\* if any, is in the store
CompletedWithPersistence ==
    /\ pc' = "dispatch"
    /\ currentPage > totalPages
    /\ store' = IF NeedsWrite(changedProductsMap)
                THEN BulkWrite(store, changedProductsMap) ELSE store

\* the pass left the pagination loop with PageError
ThrewPageError == pc' = "caught" /\ err' = "PageError"

\* the loop is over and Product.bulkWrite rejected the changeset
WriteRejected ==
    /\ pc' = "caught"
    /\ err' = "Other"
    /\ currentPage > totalPages
    /\ NeedsWrite(changedProductsMap)
    /\ store' = store

C37_NotifierFailureIsolated ==
    /\ [][rejected' # rejected =>
            /\ consecutiveFailures' = IF pc = "caught"
                                      THEN FailuresAfter(consecutiveFailures, err)
                                      ELSE consecutiveFailures
            /\ pc = "dispatch" => (pc' = "dispatch" /\ Len(sent') = Len(sent) + 1)]_vars
    /\ [](pc = "sleep" => sent = alertProducts)
    /\ [][operatorAlerts' # operatorAlerts => pc' = "terminated"]_vars

\* every pass of the run failed and the operator alert of the fifth failure
\* was rejected: the monitor has terminated
C37_Witness ==
    /\ pc = "terminated"
    /\ passesLeft = 0
    /\ failRun = MAX_CONSECUTIVE_FAILURES
    /\ rejected = 1

\* C38: the consecutive-failure counter stays within 0..MAX_CONSECUTIVE_FAILURES;
\* it grows only in the catch block, by exactly one, for PageError and for
\* any other error that is not HighTrafficError, and it does grow for each of
\* them; and a pass is started only while the counter is below the maximum.
C38_CounterBounded ==
    /\ [](consecutiveFailures \in 0..MAX_CONSECUTIVE_FAILURES)
    /\ [][consecutiveFailures' > consecutiveFailures =>
            /\ pc = "caught"
            /\ err \in {"PageError", "Other"}
            /\ consecutiveFailures' = consecutiveFailures + 1]_vars
    /\ [][(pc = "caught" /\ err # "HighTrafficError") =>
            consecutiveFailures' = consecutiveFailures + 1]_vars
    /\ [][passesLeft' # passesLeft =>
            consecutiveFailures < MAX_CONSECUTIVE_FAILURES]_vars

\* a pass is running after four failures in a row
C38_Witness ==
    /\ pc \in {"full", "hot"}
    /\ consecutiveFailures = MAX_CONSECUTIVE_FAILURES - 1

\* the alerts of the pass in progress name item i
Alerted(i) == \E k \in 1..Len(alertProducts) : alertProducts[k][1] = i

\* C39: a step of a priority-probe pass leaves the set of stored items, and
\* the price and url of each, as they are, and changes in_stock only of items
\* flagged priority; during the pass an item whose stock state on the site
\* equals the stored one has no changeset entry and no alert, every entry a
\* probe adds records a stock state other than the stored one, with one alert
\* per entry; and no step of any pass removes a stored item or changes its
\* priority flag.
C39_ProberFrame ==
    /\ [][runMode' = "throttle" =>
            /\ DOMAIN store' = DOMAIN store
            /\ \A i \in DOMAIN store :
                  /\ store'[i].price = store[i].price
                  /\ store'[i].url = store[i].url
                  /\ store'[i].in_stock # store[i].in_stock => store[i].is_priority]_vars
    /\ []((runMode = "throttle" /\ pc = "hot") =>
            \A i \in DOMAIN store :
                (site[i].stock > 0) = store[i].in_stock =>
                    (i \notin DOMAIN changedProductsMap /\ ~Alerted(i)))
    /\ [][(pc = "hot" /\ pc' = "hot") =>
            /\ \A i \in DOMAIN changedProductsMap' :
                  i \notin DOMAIN changedProductsMap =>
                      changedProductsMap'[i].in_stock # store[i].in_stock
            /\ Len(alertProducts') - Len(alertProducts)
                  = Cardinality(DOMAIN changedProductsMap' \ DOMAIN changedProductsMap)]_vars
    /\ [][/\ DOMAIN store \subseteq DOMAIN store'
          /\ \A i \in DOMAIN store : store'[i].is_priority = store[i].is_priority]_vars

\* a priority-probe pass has written the new stock state of an item
C39_Witness ==
    /\ runMode = "throttle"
    /\ pc = "dispatch"
    /\ bulkWrites = 1
    /\ \E i \in DOMAIN store : store[i].in_stock # store0[i].in_stock

====
